---- MODULE Spec2Model ----
(***************************************************************************)
(* A model of the graphAnon suite: the graph store (Graph and              *)
(* UnlabelledGraph), the label distributions, the alpha-proximity engine   *)
(* (hopeful / greedy) and the k-degree-anonymity engine                    *)
(* (anonymize_degree_sequence / hide_waldo).                               *)
(*                                                                         *)
(* Vertex ids are 0..n_-1 as in the source; vectors are modelled as        *)
(* functions with domain 0..size-1.  The float values of the label         *)
(* distributions are modelled as exact fractions <<numerator, denominator>>*)
(* (rounding of float is not modelled).                                    *)
(***************************************************************************)
EXTENDS Integers, Sequences, FiniteSets, TLC

VARIABLES
    graph,   \* the graph object: cls, n_, m_, l_, adjacency_list_, vertex_labels_
    pc,      \* position of the caller / of the running member function
    args,    \* arguments and local variables of the running call
    before,  \* the graph object as it was when the running call was entered
    ret      \* value returned by the last call that returned

vars == << graph, pc, args, before, ret >>

(***************************************************************************)
(* Bounds of the model.                                                    *)
(***************************************************************************)
MaxVertices == 3      \* vertices of the graphs handed to populate_uniformly
MaxWaldoN == 5        \* vertices of the graphs handed to hide_waldo
MaxWaldoEdges == 5    \* edges of the graphs handed to hide_waldo
MaxSeqLen == 6        \* length of the degree sequences handed to the DP
MaxLabelledN == 3     \* vertices of the labelled graphs (hopeful / greedy)
MaxLabels == 2        \* size of the label alphabet l_
AlphaDen == 4         \* alpha ranges over 0/AlphaDen .. AlphaDen/AlphaDen
MaxHopN == 4          \* vertices of the graphs handed to hop_plot
MaxThreads == 2       \* threads of the OpenMP team of hop_plot
MaxEvenN == 3         \* vertices of the graphs handed to evenly_distribute_labels
MaxEvenL == 4         \* size of their label alphabet
MaxIterN == 4         \* vertices of the graphs handed to one run_greedy_iteration
MaxIterLabels == 3    \* size of their label alphabet
MaxLDLen == 3         \* labels of a label distribution given to distance
MaxCount == 2         \* count of one label in such a distribution

(***************************************************************************)
(* uint32_t arithmetic.  A uint32_t value is represented by the integer    *)
(* with the same 32-bit two's complement pattern (4294967295 is -1), so    *)
(* that +, - and * are the wrapping operations of the source as long as    *)
(* the represented value stays within 32 bits; the comparisons of the      *)
(* source are the unsigned comparisons below.                              *)
(***************************************************************************)
ult(a, b) == IF (a < 0) = (b < 0) THEN a < b ELSE b < 0
ugt(a, b) == ult(b, a)
ule(a, b) == ~ult(b, a)

Max(a, b) == IF a > b THEN a ELSE b

(***************************************************************************)
(* Graph store: constructors.                                              *)
(***************************************************************************)
\* UnlabelledGraph::UnlabelledGraph( num_vertices ) followed by init()
UnlabelledGraph(num_vertices) ==
    [ cls |-> "UnlabelledGraph",
      n_ |-> num_vertices,
      m_ |-> 0,
      l_ |-> 0,
      adjacency_list_ |-> [i \in 0..(num_vertices - 1) |-> {}],
      vertex_labels_ |-> [i \in 0..(num_vertices - 1) |-> 0] ]

\* Graph::Graph( num_vertices, num_labels ) followed by init(): every
\* vertex isolated and labelled 0
Graph(num_vertices, num_labels) ==
    [ cls |-> "Graph",
      n_ |-> num_vertices,
      m_ |-> 0,
      l_ |-> num_labels,
      adjacency_list_ |-> [i \in 0..(num_vertices - 1) |-> {}],
      vertex_labels_ |-> [i \in 0..(num_vertices - 1) |-> 0] ]

(***************************************************************************)
(* add_edge.  Graph::add_edge tests adjacency_list_[u] only;               *)
(* UnlabelledGraph::add_edge tests adjacency_list_[v] as well.             *)
(* The result is the pair (graph afterwards, value returned).              *)
(***************************************************************************)
\* mutant: the duplicate test is dropped, so m_ grows on a repeated insert
add_edge_no_duplicate_test(G, u, v) ==
    IF u = v
    THEN [g |-> G, ok |-> FALSE]
    ELSE [g |-> [G EXCEPT !.adjacency_list_ =
                      [w \in DOMAIN G.adjacency_list_ |->
                          IF w = u THEN G.adjacency_list_[u] \cup {v}
                          ELSE IF w = v THEN G.adjacency_list_[v] \cup {u}
                          ELSE G.adjacency_list_[w]],
                    !.m_ = G.m_ + 1],
          ok |-> TRUE]

add_edge(G, u, v) ==
    IF v \in G.adjacency_list_[u] \/ u = v
    THEN [g |-> G, ok |-> FALSE]
    ELSE IF G.cls = "UnlabelledGraph" /\ u \in G.adjacency_list_[v]
    THEN [g |-> G, ok |-> FALSE]
    ELSE [g |-> [G EXCEPT !.adjacency_list_ =
                      [w \in DOMAIN G.adjacency_list_ |->
                          IF w = u THEN G.adjacency_list_[u] \cup {v}
                          ELSE IF w = v THEN G.adjacency_list_[v] \cup {u}
                          ELSE G.adjacency_list_[w]],
                    !.m_ = G.m_ + 1],
          ok |-> TRUE]

\* mutant: n_ grows but the adjacency list is not resized
add_vertices_no_resize(G, num_vertices) ==
    [G EXCEPT !.n_ = G.n_ + num_vertices]

\* UnlabelledGraph::add_vertices
add_vertices(G, num_vertices) ==
    [G EXCEPT !.n_ = G.n_ + num_vertices,
              !.adjacency_list_ =
                  [w \in 0..(G.n_ + num_vertices - 1) |->
                      IF w < G.n_ THEN G.adjacency_list_[w] ELSE {}],
              !.vertex_labels_ =
                  [w \in 0..(G.n_ + num_vertices - 1) |->
                      IF w < G.n_ THEN G.vertex_labels_[w] ELSE 0]]

\* mutant: the factor n_ is lost
is_complete_lost_factor(G) == G.m_ = G.n_ - 1

\* is_complete(): m_ == n_ * ( n_ - 1 ), in uint32_t arithmetic
is_complete(G) == G.m_ = G.n_ * (G.n_ - 1)

\* the pairs add_edge would accept
Insertable(G) ==
    { e \in (0..(G.n_ - 1)) \X (0..(G.n_ - 1)) : add_edge(G, e[1], e[2]).ok }

(***************************************************************************)
(* populate_uniformly.                                                     *)
(***************************************************************************)
\* "error checking: can we add this many edges?"
populate_guard(G, num_edges) ==
    ugt(num_edges, G.n_ * (G.n_ - 1) - G.m_)

\* the list possible_edges: every pair (i, j) with i < j < n_
possible_edges(G) ==
    { e \in (0..(G.n_ - 1)) \X (0..(G.n_ - 1)) : e[1] < e[2] }

\* the caller builds the graph edge by edge (file constructor)
BuildEdge ==
    /\ pc = "idle"
    /\ \E u \in 0..(graph.n_ - 1), v \in 0..(graph.n_ - 1) :
          /\ add_edge(graph, u, v).ok
          /\ graph' = add_edge(graph, u, v).g
    /\ UNCHANGED << pc, args, before, ret >>

\* entry of populate_uniformly( num_edges ): the capacity test, then the
\* shuffled list of all pairs (the shuffle is the order in which
\* PopulateStep draws the pairs that are left)
PopulateCall ==
    /\ pc = "idle"
    /\ \E num_edges \in 0..(graph.n_ * (graph.n_ - 1) + 1) :
          /\ before' = graph
          /\ IF populate_guard(graph, num_edges)
             THEN /\ pc' = "returned"
                  /\ ret' = FALSE
                  /\ args' = [op |-> "populate_uniformly", num_edges |-> num_edges,
                              left |-> {}, num_added |-> 0]
             ELSE /\ pc' = "populate"
                  /\ ret' = ret
                  /\ args' = [op |-> "populate_uniformly", num_edges |-> num_edges,
                              left |-> possible_edges(graph), num_added |-> 0]
    /\ UNCHANGED graph

\* one pass of the loop over possible_edges, or the exit of that loop
PopulateStep ==
    /\ pc = "populate"
    /\ IF args.left = {}
       THEN /\ pc' = "returned"
            /\ ret' = FALSE
            /\ UNCHANGED << graph, args >>
       ELSE \E e \in args.left :
              LET r == add_edge(graph, e[1], e[2])
                  added == IF r.ok THEN args.num_added + 1 ELSE args.num_added
              IN /\ graph' = r.g
                 /\ args' = [args EXCEPT !.left = args.left \ {e},
                                         !.num_added = added]
                 /\ IF r.ok /\ added = args.num_edges
                    THEN pc' = "returned" /\ ret' = TRUE
                    ELSE pc' = "populate" /\ ret' = ret
    /\ UNCHANGED before

\* the caller goes on after a call returned
Resume ==
    /\ pc = "returned"
    /\ pc' = "idle"
    /\ args' = [op |-> "none"]
    /\ UNCHANGED << graph, before, ret >>

InitPop ==
    /\ \E n \in 0..MaxVertices :
          graph \in {UnlabelledGraph(n), Graph(n, 1)}
    /\ pc = "idle"
    /\ args = [op |-> "none"]
    /\ before = graph
    /\ ret = FALSE

NextPop == BuildEdge \/ PopulateCall \/ PopulateStep \/ Resume

SpecPop == InitPop /\ [][NextPop]_vars

(***************************************************************************)
(* C9.  Whenever populate_uniformly(e) returns true, the edge count has    *)
(* grown by exactly e, exactly e pairs of vertices became adjacent, each   *)
(* of them two distinct vertices that were not adjacent before, and no     *)
(* edge that was present before has been removed.                          *)
(***************************************************************************)
AddedPairs(B, G) ==
    { e \in (0..(G.n_ - 1)) \X (0..(G.n_ - 1)) :
         /\ e[2] \in G.adjacency_list_[e[1]]
         /\ e[2] \notin B.adjacency_list_[e[1]] }

PopulateSuccessAddsExactly ==
    (pc = "returned" /\ args.op = "populate_uniformly" /\ ret = TRUE) =>
        /\ graph.n_ = before.n_
        /\ graph.m_ = before.m_ + args.num_edges
        /\ \A u \in 0..(before.n_ - 1) :
              before.adjacency_list_[u] \subseteq graph.adjacency_list_[u]
        /\ Cardinality(AddedPairs(before, graph)) = 2 * args.num_edges
        /\ \A e \in AddedPairs(before, graph) :
              /\ e[1] # e[2]
              /\ e[1] \notin before.adjacency_list_[e[2]]
              /\ << e[2], e[1] >> \in AddedPairs(before, graph)

PopulateSuccessWitness ==
    /\ pc = "returned" /\ args.op = "populate_uniformly" /\ ret = TRUE
    /\ args.num_edges = 2
    /\ before.m_ = 1
    /\ graph.m_ = 3

(***************************************************************************)
(* C10.  populate_uniformly is atomic: whenever it returns false the       *)
(* adjacency structure and the edge count are as they were before the      *)
(* call.                                                                   *)
(***************************************************************************)
PopulateFailureChangesNothing ==
    (pc = "returned" /\ args.op = "populate_uniformly" /\ ret = FALSE) =>
        graph = before

(***************************************************************************)
(* C11.  populate_uniformly(num_edges) returns false if and only if        *)
(* num_edges > n(n-1) - m; for every other num_edges (num_edges = 0        *)
(* included) it returns true.                                              *)
(***************************************************************************)
PopulateFalseIffTooMany ==
    (pc = "returned" /\ args.op = "populate_uniformly") =>
        (ret = FALSE <=> populate_guard(before, args.num_edges))

(***************************************************************************)
(* Degree sequences: DegreeSequence is a vector of (degree, vertex id)     *)
(* pairs sorted by descending degree.                                      *)
(***************************************************************************)
first(p) == p[1]
second(p) == p[2]

\* degrees->at( j ).first = v
SetFirst(degrees, j, v) ==
    [x \in DOMAIN degrees |-> IF x = j THEN << v, second(degrees[x]) >> ELSE degrees[x]]

\* the vector a with a[i] = v appended or overwritten
Store(a, i, v) == [x \in (DOMAIN a) \cup {i} |-> IF x = i THEN v ELSE a[x]]

\* the base case of anonymize_degree_sequence: the loop of lines 150-153
RECURSIVE BaseDeficiency(_, _, _)
BaseDeficiency(degrees, n, i) ==
    IF ~ult(i, n) THEN 0
    ELSE (first(degrees[0]) - first(degrees[i])) + BaseDeficiency(degrees, n, i + 1)

\* "trivially populate first 2k - 1 positions, since cannot split"
RECURSIVE TrivialPositions(_, _, _, _)
TrivialPositions(degrees, k, i, tab) ==
    IF ~ult(i, 2 * k - 1) THEN tab
    ELSE TrivialPositions(degrees, k, i + 1,
            [ costs |-> Store(tab.costs, i, first(degrees[0]) - first(degrees[i])),
              starts |-> Store(tab.starts, i, 0) ])

\* the loop over j of lines 179-189; best = (best_split_pos, best_cost, best_sum)
RECURSIVE ScanSplits(_, _, _, _, _, _)
ScanSplits(degrees, costs, i, j, range_end, best) ==
    IF ~ule(j, range_end) THEN best
    ELSE LET cost_left == costs[j]
             cost_right == first(degrees[j + 1]) - first(degrees[i])
             full_cost == IF ugt(cost_left, cost_right) THEN cost_left ELSE cost_right
             sum_cost == cost_left + cost_right
         IN IF ult(full_cost, best.best_cost)
               \/ (full_cost = best.best_cost /\ ult(sum_cost, best.best_sum))
            THEN ScanSplits(degrees, costs, i, j + 1, range_end,
                     [ best_split_pos |-> j + 1, best_cost |-> full_cost,
                       best_sum |-> sum_cost ])
            ELSE ScanSplits(degrees, costs, i, j + 1, range_end, best)

\* mutant: the first candidate split is kept, the other splits are not tried
BestSplitFirstOnly(degrees, costs, k, i) ==
    LET range_start == IF ugt(k - 1, i - 2 * k + 1) THEN k - 1 ELSE i - 2 * k + 1
        cost_left == costs[range_start]
        cost_right == first(degrees[range_start + 1]) - first(degrees[i])
    IN [ best_split_pos |-> range_start + 1,
         best_cost |-> IF ugt(cost_left, cost_right) THEN cost_left ELSE cost_right,
         best_sum |-> cost_left + cost_right ]

\* one pass of "compute best split for remaining n - (2k - 1) positions"
BestSplit(degrees, costs, k, i) ==
    LET range_end == i - k
        range_start == IF ugt(k - 1, i - 2 * k + 1) THEN k - 1 ELSE i - 2 * k + 1
        cost_left == costs[range_start]
        cost_right == first(degrees[range_start + 1]) - first(degrees[i])
    IN ScanSplits(degrees, costs, i, range_start + 1, range_end,
          [ best_split_pos |-> range_start + 1,
            best_cost |-> IF ugt(cost_left, cost_right) THEN cost_left ELSE cost_right,
            best_sum |-> cost_left + cost_right ])

RECURSIVE FillTable(_, _, _, _, _)
FillTable(degrees, k, n, i, tab) ==
    IF ~ult(i, n) THEN tab
    ELSE LET b == BestSplit(degrees, tab.costs, k, i)
         IN FillTable(degrees, k, n, i + 1,
               [ costs |-> Store(tab.costs, i, b.best_cost),
                 starts |-> Store(tab.starts, i, b.best_split_pos) ])

\* the loop over j of lines 205-207
RECURSIVE RewriteBlock(_, _, _, _)
RewriteBlock(degrees, j, i, block_degree) ==
    IF ~ule(j, i) THEN degrees
    ELSE RewriteBlock(SetFirst(degrees, j, block_degree), j + 1, i, block_degree)

\* the backward pass of lines 200-208: for( i = n - 1; i < n; i = starts[ i ] - 1 ).
\* acc = (degrees so far, blocks replayed, whether an assert failed)
RECURSIVE ReplayBackwards(_, _, _, _)
ReplayBackwards(starts, n, i, acc) ==
    IF ~ult(i, n) THEN acc
    ELSE LET block_start == starts[i]
             block_degree == first(acc.degrees[block_start])
         IN IF ~ule(block_start, i) \/ ~ule(block_degree, n)
            THEN [acc EXCEPT !.aborted = TRUE]
            ELSE ReplayBackwards(starts, n, starts[i] - 1,
                    [ degrees |-> RewriteBlock(acc.degrees, block_start + 1, i, block_degree),
                      blocks |-> acc.blocks \cup { << block_start, i >> },
                      aborted |-> FALSE ])

\* anonymize_degree_sequence( degrees, k ): the rewritten sequence, the value
\* returned, the blocks the backward pass replayed and whether an assert failed
anonymize_degree_sequence(degrees, k) ==
    LET n == Cardinality(DOMAIN degrees)
    IN IF ult(n, 2 * k)
       THEN [ degrees |-> degrees,
              max_deficiency |-> BaseDeficiency(degrees, n, 1),
              blocks |-> {},
              aborted |-> FALSE ]
       ELSE LET tab == FillTable(degrees, k, n, 2 * k - 1,
                          TrivialPositions(degrees, k, 0,
                              [ costs |-> << >>, starts |-> << >> ]))
                r == ReplayBackwards(tab.starts, n, n - 1,
                          [ degrees |-> degrees, blocks |-> {}, aborted |-> FALSE ])
            IN [ degrees |-> r.degrees,
                 max_deficiency |-> tab.costs[n - 1],
                 blocks |-> r.blocks,
                 aborted |-> r.aborted ]

(***************************************************************************)
(* The DP as a pure function: the inputs are the descending sequences of   *)
(* the degrees of n vertices (each degree in 0..n-1) and 1 <= k <= n.      *)
(***************************************************************************)
DescendingSequences(n) ==
    { [i \in 0..(n - 1) |-> << s[i], i >>] :
        s \in { t \in [0..(n - 1) -> 0..(n - 1)] :
                  \A i \in 0..(n - 2) : t[i] >= t[i + 1] } }

InitDP ==
    /\ graph = UnlabelledGraph(0)
    /\ before = graph
    /\ pc = "dp_input"
    /\ ret = FALSE
    /\ \E n \in 1..MaxSeqLen :
         \E degrees \in DescendingSequences(n), k \in 1..n :
            args = [op |-> "anonymize_degree_sequence", degrees |-> degrees, k |-> k]

Anonymize ==
    /\ pc = "dp_input"
    /\ pc' = "dp_done"
    /\ ret' = anonymize_degree_sequence(args.degrees, args.k)
    /\ UNCHANGED << graph, args, before >>

NextDP == Anonymize

SpecDP == InitDP /\ [][NextDP]_vars

(***************************************************************************)
(* C5.  For every descending degree sequence of n vertices and every k     *)
(* with 1 <= k <= n (the base case n < 2k included), after                 *)
(* anonymize_degree_sequence every degree value that appears in the        *)
(* rewritten sequence appears at least k times.                            *)
(***************************************************************************)
Multiplicity(degrees, v) ==
    Cardinality({ i \in DOMAIN degrees : first(degrees[i]) = v })

KAnonymousSequence(degrees, k) ==
    \A i \in DOMAIN degrees : Multiplicity(degrees, first(degrees[i])) >= k

RewrittenSequenceIsKAnonymous ==
    pc = "dp_done" => KAnonymousSequence(ret.degrees, args.k)

(***************************************************************************)
(* C6.  For every descending degree sequence and every k with              *)
(* 1 <= k <= n/2, the value returned by anonymize_degree_sequence is the   *)
(* minimum, over all partitions of the sequence into contiguous blocks of  *)
(* size >= k, of the largest (first degree - last degree) of a block, and  *)
(* it is that largest difference for the partition the backward pass       *)
(* applies (which is such a partition, and leaves the sequence             *)
(* k-anonymous).                                                           *)
(***************************************************************************)
\* the blocks (start, end) of the partition of 0..n-1 whose blocks start at S
BlocksOf(S, n) ==
    { << s, CHOOSE e \in s..(n - 1) :
               /\ \A x \in (s + 1)..e : x \notin S
               /\ (e = n - 1 \/ e + 1 \in S) >> : s \in S }

ContiguousPartitions(n, k) ==
    { BlocksOf(S \cup {0}, n) : S \in SUBSET (1..(n - 1)) } \cap
    { P \in SUBSET ((0..(n - 1)) \X (0..(n - 1))) :
         \A b \in P : b[2] - b[1] + 1 >= k }

BlockCost(degrees, b) == first(degrees[b[1]]) - first(degrees[b[2]])

PartitionCost(degrees, P) ==
    CHOOSE c \in { BlockCost(degrees, b) : b \in P } :
        \A b \in P : BlockCost(degrees, b) <= c

MinPartitionCost(degrees, k) ==
    LET n == Cardinality(DOMAIN degrees)
        all == { PartitionCost(degrees, P) : P \in ContiguousPartitions(n, k) }
    IN CHOOSE c \in all : \A x \in all : c <= x

ReturnedCostIsMinMax ==
    (pc = "dp_done" /\ 2 * args.k <= Cardinality(DOMAIN args.degrees)) =>
        /\ ~ret.aborted
        /\ ret.blocks \in ContiguousPartitions(Cardinality(DOMAIN args.degrees), args.k)
        /\ ret.max_deficiency = PartitionCost(args.degrees, ret.blocks)
        /\ ret.max_deficiency = MinPartitionCost(args.degrees, args.k)
        /\ KAnonymousSequence(ret.degrees, args.k)

ReturnedCostWitness ==
    /\ pc = "dp_done"
    /\ 2 * args.k <= Cardinality(DOMAIN args.degrees)
    /\ Cardinality(ret.blocks) = 3
    /\ ret.max_deficiency = 1
    /\ PartitionCost(args.degrees, { << 0, Cardinality(DOMAIN args.degrees) - 1 >> }) = 4

(***************************************************************************)
(* Identity-disclosure engine: is_anonymous, retrieve_degree_sequence,     *)
(* hide_waldo.                                                             *)
(***************************************************************************)
\* is_anonymous( k ): every degree that occurs, occurs at least k times
is_anonymous(G, k) ==
    LET degree_counts(d) ==
            Cardinality({ v \in 0..(G.n_ - 1) : Cardinality(G.adjacency_list_[v]) = d })
    IN \A u \in 0..(G.n_ - 1) :
          ~ult(degree_counts(Cardinality(G.adjacency_list_[u])), k)

\* std::greater on (degree, vertex id) pairs
Greater(a, b) == first(a) > first(b) \/ (first(a) = first(b) /\ second(a) > second(b))

\* retrieve_degree_sequence: the (degree, id) pairs sorted by std::greater
retrieve_degree_sequence(G) ==
    LET pairs == { << Cardinality(G.adjacency_list_[i]), i >> : i \in 0..(G.n_ - 1) }
    IN [ p \in 0..(G.n_ - 1) |->
            CHOOSE x \in pairs : Cardinality({ y \in pairs : Greater(y, x) }) = p ]

\* mutant: as many vertices as max( max_def, k ), not made odd
new_vertex_count_not_odd(max_def, k, hide_new_vertices) ==
    IF hide_new_vertices
    THEN (IF ugt(max_def, k) THEN max_def ELSE k)
    ELSE max_def

\* the argument of add_vertices in hide_waldo (lines 242-247)
new_vertex_count(max_def, k, hide_new_vertices) ==
    IF hide_new_vertices
    THEN LET md_or_k == IF ugt(max_def, k) THEN max_def ELSE k
         IN IF md_or_k % 2 # 0 THEN md_or_k ELSE md_or_k + 1
    ELSE max_def

\* "Section 3.3: Add new edges cyclically to anonymize original graph":
\* the two nested loops of lines 251-258, from position (i, j) on.
\* st = (graph, cursor, whether every add_edge so far has inserted its edge)
RECURSIVE AddCyclically(_, _, _, _, _, _)
\* mutant: the cursor moves on only when the vertex changes
AddCyclically_cursor_per_vertex(st, degrees, anon_degrees, first_new_vertex, i, j) ==
    IF ~ult(i, first_new_vertex) THEN st
    ELSE LET deficiency == first(anon_degrees[i]) - first(degrees[i])
             e == add_edge(st.g, second(degrees[i]), st.cursor)
         IN IF ~ult(j, deficiency)
            THEN AddCyclically(
                    [ st EXCEPT !.cursor = IF st.cursor = st.g.n_ - 1
                                           THEN first_new_vertex ELSE st.cursor + 1 ],
                    degrees, anon_degrees, first_new_vertex, i + 1, 0)
            ELSE AddCyclically(
                    [ g |-> e.g, cursor |-> st.cursor,
                      all_added |-> st.all_added /\ e.ok ],
                    degrees, anon_degrees, first_new_vertex, i, j + 1)

AddCyclically(st, degrees, anon_degrees, first_new_vertex, i, j) ==
    IF ~ult(i, first_new_vertex) THEN st
    ELSE LET deficiency == first(anon_degrees[i]) - first(degrees[i])
             e == add_edge(st.g, second(degrees[i]), st.cursor)
         IN IF ~ult(j, deficiency)
            THEN AddCyclically(st, degrees, anon_degrees, first_new_vertex, i + 1, 0)
            ELSE AddCyclically(
                    [ g |-> e.g,
                      cursor |-> IF st.cursor = st.g.n_ - 1
                                 THEN first_new_vertex ELSE st.cursor + 1,
                      all_added |-> st.all_added /\ e.ok ],
                    degrees, anon_degrees, first_new_vertex, i, j + 1)

\* while( cursor < n_ - 1 ) { add_edge( cursor, cursor + 1 ); cursor += 2; }
RECURSIVE PairFromCursor(_)
PairFromCursor(st) ==
    IF ~ult(st.cursor, st.g.n_ - 1) THEN st
    ELSE PairFromCursor([ g |-> add_edge(st.g, st.cursor, st.cursor + 1).g,
                          cursor |-> st.cursor + 2 ])

\* for( ...; cursor < n_; cursor += 2 ) { add_edge( cursor, cursor + 1 ); }
RECURSIVE PairFromStart(_)
PairFromStart(st) ==
    IF ~ult(st.cursor, st.g.n_) THEN st
    ELSE PairFromStart([ g |-> add_edge(st.g, st.cursor, st.cursor + 1).g,
                         cursor |-> st.cursor + 2 ])

\* the pairing procedure of lines 262-275
PairNewVertices(st, k, first_new_vertex) ==
    IF st.cursor # first_new_vertex /\ ~is_anonymous(st.g, k)
    THEN LET w == PairFromCursor(st)
         IN IF w.cursor = w.g.n_ - 1
            THEN PairFromStart(
                    [ g |-> add_edge(w.g, w.g.n_ - 1, first_new_vertex).g,
                      cursor |-> first_new_vertex + 1 ])
            ELSE w
    ELSE st

\* mutant: the cursor starts at vertex 0
hide_waldo_cursor_from_zero(G, k, hide_new_vertices) ==
    LET degrees == retrieve_degree_sequence(G)
        anon == anonymize_degree_sequence(degrees, k)
        max_def == anon.max_deficiency
    IN IF ugt(max_def, 0)
       THEN LET first_new_vertex == G.n_
                grown == add_vertices(G, new_vertex_count(max_def, k, hide_new_vertices))
                st == AddCyclically([ g |-> grown, cursor |-> 0,
                                      all_added |-> TRUE ],
                                    degrees, anon.degrees, first_new_vertex, 0, 0)
            IN [ g |-> IF hide_new_vertices
                       THEN PairNewVertices(st, k, first_new_vertex).g
                       ELSE st.g,
                 max_def |-> max_def,
                 anon_degrees |-> anon.degrees,
                 all_added |-> st.all_added ]
       ELSE [ g |-> G, max_def |-> max_def, anon_degrees |-> anon.degrees,
              all_added |-> TRUE ]

\* hide_waldo< hide_new_vertices >( k ): the graph afterwards and max_def
hide_waldo(G, k, hide_new_vertices) ==
    LET degrees == retrieve_degree_sequence(G)
        anon == anonymize_degree_sequence(degrees, k)
        max_def == anon.max_deficiency
    IN IF ugt(max_def, 0)
       THEN LET first_new_vertex == G.n_
                grown == add_vertices(G, new_vertex_count(max_def, k, hide_new_vertices))
                st == AddCyclically([ g |-> grown, cursor |-> first_new_vertex,
                                      all_added |-> TRUE ],
                                    degrees, anon.degrees, first_new_vertex, 0, 0)
            IN [ g |-> IF hide_new_vertices
                       THEN PairNewVertices(st, k, first_new_vertex).g
                       ELSE st.g,
                 max_def |-> max_def,
                 anon_degrees |-> anon.degrees,
                 all_added |-> st.all_added ]
       ELSE [ g |-> G, max_def |-> max_def, anon_degrees |-> anon.degrees,
              all_added |-> TRUE ]

\* the caller builds the graph to anonymise, edge by edge
WaldoBuildEdge ==
    /\ pc = "idle"
    /\ graph.m_ < MaxWaldoEdges
    /\ \E u \in 0..(graph.n_ - 1), v \in 0..(graph.n_ - 1) :
          /\ add_edge(graph, u, v).ok
          /\ graph' = add_edge(graph, u, v).g
    /\ before' = graph'
    /\ UNCHANGED << pc, args, ret >>

\* a call of hide_waldo< hide_new_vertices >( k ) with 1 <= k <= n_
HideWaldo ==
    /\ pc = "idle"
    /\ \E k \in 1..graph.n_, hide_new_vertices \in BOOLEAN :
          LET r == hide_waldo(graph, k, hide_new_vertices)
          IN /\ graph' = r.g
             /\ args' = [ op |-> "hide_waldo", k |-> k,
                          hide_new_vertices |-> hide_new_vertices,
                          max_def |-> r.max_def,
                          anon_degrees |-> r.anon_degrees,
                          all_added |-> r.all_added ]
    /\ before' = graph
    /\ pc' = "returned"
    /\ UNCHANGED ret

InitWaldo ==
    /\ \E n \in 1..MaxWaldoN : graph = UnlabelledGraph(n)
    /\ before = graph
    /\ pc = "idle"
    /\ args = [op |-> "none"]
    /\ ret = FALSE

NextWaldo == WaldoBuildEdge \/ HideWaldo

SpecWaldo == InitWaldo /\ [][NextWaldo]_vars

(***************************************************************************)
(* C3.  After hide_waldo<false>(k) returns on a graph with 1 <= k <= n,    *)
(* is_anonymous(k) is true of the resulting graph (all its vertices, the   *)
(* new ones included).                                                     *)
(***************************************************************************)
HideWaldoFalseLeavesAnonymous ==
    (pc = "returned" /\ args.op = "hide_waldo" /\ ~args.hide_new_vertices) =>
        is_anonymous(graph, args.k)

(***************************************************************************)
(* C4.  After hide_waldo<true>(k) returns on a graph with 1 <= k <= n,     *)
(* is_anonymous(k) is true: every degree of the augmented graph occurs at  *)
(* least k times.                                                          *)
(***************************************************************************)
HideWaldoTrueLeavesAnonymous ==
    (pc = "returned" /\ args.op = "hide_waldo" /\ args.hide_new_vertices) =>
        is_anonymous(graph, args.k)

(***************************************************************************)
(* C7.  hide_waldo(k) changes nothing exactly when the graph is already    *)
(* k-degree-anonymous: max_def is 0 iff is_anonymous(k) holds of the input *)
(* graph, and the graph is left as it was iff is_anonymous(k) held.        *)
(***************************************************************************)
NothingChangesIffAlreadyAnonymous ==
    (pc = "returned" /\ args.op = "hide_waldo") =>
        /\ (args.max_def = 0) <=> is_anonymous(before, args.k)
        /\ (graph = before) <=> is_anonymous(before, args.k)

NothingChangesWitness ==
    /\ pc = "returned" /\ args.op = "hide_waldo"
    /\ args.k = 2
    /\ before.n_ = 5
    /\ before.m_ = 4
    /\ is_anonymous(before, 2)
    /\ graph = before

(***************************************************************************)
(* C8.  When max_def > 0, hide_waldo<false>(k) grows the vertex count by   *)
(* exactly max_def and hide_waldo<true>(k) by max(max_def, k) rounded up   *)
(* to the next odd number; when max_def = 0 the vertex count is unchanged. *)
(***************************************************************************)
NextOdd(x) == IF x % 2 = 1 THEN x ELSE x + 1

VertexCountGrowth ==
    (pc = "returned" /\ args.op = "hide_waldo") =>
        graph.n_ - before.n_ =
            IF args.max_def = 0 THEN 0
            ELSE IF args.hide_new_vertices THEN NextOdd(Max(args.max_def, args.k))
            ELSE args.max_def

VertexCountGrowthWitness ==
    /\ pc = "returned" /\ args.op = "hide_waldo"
    /\ args.hide_new_vertices
    /\ args.max_def = 2
    /\ args.k = 2
    /\ before.n_ = 5
    /\ graph.n_ = 8

(***************************************************************************)
(* Label distributions (label_distribution.cpp, the class Graph uses).     *)
(* A float is modelled as the exact fraction << numerator, denominator >>  *)
(* with a positive denominator.                                            *)
(***************************************************************************)
FracSub(a, b) == << a[1] * b[2] - b[1] * a[2], a[2] * b[2] >>
FracAdd(a, b) == << a[1] * b[2] + b[1] * a[2], a[2] * b[2] >>
FracNeg(a) == << 0 - a[1], a[2] >>
FracLt(a, b) == a[1] * b[2] < b[1] * a[2]
FracLe(a, b) == a[1] * b[2] <= b[1] * a[2]
FracGt(a, b) == FracLt(b, a)
Zero == << 0, 1 >>

\* a local of the code: e is evaluated once, Body gets its value
Local(e, Body(_)) == CHOOSE r \in { Body(x) : x \in {e} } : TRUE

RECURSIVE GCD(_, _)
GCD(x, y) == IF y = 0 THEN x ELSE GCD(y, x % y)

Abs(x) == IF x < 0 THEN 0 - x ELSE x

\* the same number in lowest terms
Reduce(a) ==
    Local(GCD(Abs(a[1]), a[2]), LAMBDA g : << a[1] \div g, a[2] \div g >>)

RECURSIVE SumUpTo(_, _)
SumUpTo(counts, i) == IF i < 0 THEN 0 ELSE counts[i] + SumUpTo(counts, i - 1)

\* LabelDistribution( std::vector< uint32_t > *counts )
LabelDistribution(counts) ==
    Local(counts,
          LAMBDA c : [ frequencies_ |-> c,
                       sum_ |-> SumUpTo(c, Cardinality(DOMAIN c) - 1) ])

get_length(ld) == Cardinality(DOMAIN ld.frequencies_)

\* mutant: the cast to float is lost, the division is the integer one
get_frequency_integer_division(ld, pos) ==
    IF ugt(pos, get_length(ld)) \/ ld.sum_ = 0
    THEN Zero
    ELSE << ld.frequencies_[pos] \div ld.sum_, 1 >>

\* LabelDistribution::get_frequency( pos )
get_frequency(ld, pos) ==
    IF ugt(pos, get_length(ld)) \/ ld.sum_ = 0
    THEN Zero
    ELSE << ld.frequencies_[pos], ld.sum_ >>

LD_INCOMPARABLE == << -1, 1 >>

RECURSIVE DistanceFrom(_, _, _, _)
\* mutant: the absolute value is not taken
DistanceFrom_signed(ld, another, i, acc) ==
    IF ~ult(i, get_length(ld) - 1) THEN acc
    ELSE DistanceFrom(ld, another, i + 1,
                      FracAdd(acc, FracSub(get_frequency(ld, i),
                                           get_frequency(another, i))))

\* the loop of LabelDistribution::distance from label i on
DistanceFrom(ld, another, i, acc) ==
    IF ~ult(i, get_length(ld) - 1) THEN acc
    ELSE Local(FracSub(get_frequency(ld, i), get_frequency(another, i)),
           LAMBDA label_distance :
             Local(FracAdd(acc, IF FracGt(label_distance, Zero)
                                THEN label_distance ELSE FracNeg(label_distance)),
                   LAMBDA dist : DistanceFrom(ld, another, i + 1, dist)))

\* mutant: only a shorter receiver is found incomparable
distance_one_sided_test(ld, another) ==
    IF get_length(ld) < get_length(another)
    THEN LD_INCOMPARABLE
    ELSE IF get_length(ld) > get_length(another)
    THEN Zero
    ELSE DistanceFrom(ld, another, 0, Zero)

\* LabelDistribution::distance( another )
distance(ld, another) ==
    IF get_length(ld) # get_length(another)
    THEN LD_INCOMPARABLE
    ELSE DistanceFrom(ld, another, 0, Zero)

\* the loop of LabelDistribution::get_deficiencies from label i on;
\* acc = (deficiencies, difference); a bitmask is the set of its set bits
RECURSIVE DeficienciesFrom(_, _, _, _)
DeficienciesFrom(ld, another, i, acc) ==
    IF ~ult(i, get_length(ld)) THEN acc
    ELSE Local(FracSub(get_frequency(another, i), get_frequency(ld, i)),
           LAMBDA pairwise_diff :
             Local(IF FracGt(pairwise_diff, Zero)
                   THEN [ deficiencies |-> acc.deficiencies \cup {i},
                          difference |-> Reduce(FracAdd(acc.difference, pairwise_diff)) ]
                   ELSE [ deficiencies |-> acc.deficiencies,
                          difference |-> Reduce(FracSub(acc.difference, pairwise_diff)) ],
                   LAMBDA next : DeficienciesFrom(ld, another, i + 1, next)))

\* mutant: a difference equal to alpha counts as alpha-proximal
get_deficiencies_at_most_alpha(ld, another, alpha) ==
    Local(DeficienciesFrom(ld, another, 0, [ deficiencies |-> {}, difference |-> Zero ]),
          LAMBDA r : IF FracLe(r.difference, alpha) THEN {} ELSE r.deficiencies)

\* LabelDistribution::get_deficiencies( another, alpha )
get_deficiencies(ld, another, alpha) ==
    Local(DeficienciesFrom(ld, another, 0, [ deficiencies |-> {}, difference |-> Zero ]),
          LAMBDA r : IF FracLt(r.difference, alpha) THEN {} ELSE r.deficiencies)

(***************************************************************************)
(* Attribute-disclosure engine (graph.cpp).                                *)
(***************************************************************************)
\* Graph::get_global_ld
get_global_ld(G) ==
    LabelDistribution(
        [ i \in 0..(G.l_ - 1) |->
             Cardinality({ v \in 0..(G.n_ - 1) : G.vertex_labels_[v] = i }) ])

\* Graph::get_neighbourhood_ld: the label of v and of each neighbour of v
get_neighbourhood_ld(G, v) ==
    LabelDistribution(
        [ i \in 0..(G.l_ - 1) |->
             (IF G.vertex_labels_[v] = i THEN 1 ELSE 0)
             + Cardinality({ u \in G.adjacency_list_[v] : G.vertex_labels_[u] = i }) ])

\* the loop of Graph::is_alpha_proximal from vertex v on
RECURSIVE MaxDistanceFrom(_, _, _, _)
MaxDistanceFrom(G, global, v, max_distance) ==
    IF ~ult(v, G.n_) THEN max_distance
    ELSE Local(get_neighbourhood_ld(G, v),
           LAMBDA neighbourhood :
             Local(distance(global, neighbourhood),
                   LAMBDA d :
                     Local(IF FracGt(d, max_distance) THEN d ELSE max_distance,
                           LAMBDA m : MaxDistanceFrom(G, global, v + 1, m))))

\* mutant: the threshold test is strict
is_alpha_proximal_strict(G, alpha) ==
    Local(get_global_ld(G),
          LAMBDA global : FracLt(MaxDistanceFrom(G, global, 0, Zero), alpha))

\* Graph::is_alpha_proximal( alpha )
is_alpha_proximal(G, alpha) ==
    Local(get_global_ld(G),
          LAMBDA global : FracLe(MaxDistanceFrom(G, global, 0, Zero), alpha))

\* the visit_order vector before the shuffle: (vertex, defs) for every vertex
\* whose deficiency bitmask is not 0, by increasing vertex id
RECURSIVE DeficientFrom(_, _, _, _)
\* mutant: a vertex deficient in a single label is left out
DeficientFrom_two_labels_needed(G, alpha, global, i) ==
    IF ~ult(i, G.n_) THEN << >>
    ELSE Local(get_neighbourhood_ld(G, i),
           LAMBDA neighbourhood :
             Local(get_deficiencies(neighbourhood, global, alpha),
                   LAMBDA defs :
                     (IF Cardinality(defs) > 1 THEN << << i, defs >> >> ELSE << >>)
                     \o DeficientFrom(G, alpha, global, i + 1)))

DeficientFrom(G, alpha, global, i) ==
    IF ~ult(i, G.n_) THEN << >>
    ELSE Local(get_neighbourhood_ld(G, i),
           LAMBDA neighbourhood :
             Local(get_deficiencies(neighbourhood, global, alpha),
                   LAMBDA defs :
                     (IF defs # {} THEN << << i, defs >> >> ELSE << >>)
                     \o DeficientFrom(G, alpha, global, i + 1)))

\* the outcomes of std::random_shuffle on a vector
Shuffles(vec) ==
    { [ p \in 1..Len(vec) |-> vec[f[p]] ] :
        f \in { g \in [1..Len(vec) -> 1..Len(vec)] :
                  \A a, b \in 1..Len(vec) : a # b => g[a] # g[b] } }

\* x ^ y on bitmasks
Xor(x, y) == (x \ y) \cup (y \ x)

\* ffs( defs ) - 1 as a uint32_t: the lowest set bit, 4294967295 if there is none
LowestBit(defs) ==
    IF defs = {} THEN -1 ELSE CHOOSE b \in defs : \A c \in defs : b <= c

\* 1 << s.  A shift count outside 0..31 is undefined behaviour; the builds
\* either use the low five bits of the count or shift the bit out: `undefined'
\* is the one of these the build produces
Shl1(s, undefined) ==
    IF s \in 0..31 THEN {s}
    ELSE IF undefined = "masked" THEN {s % 32} ELSE {}

UndefinedShift == {"masked", "zero"}

\* the loop over it_mate (lines 347-357): st = (graph, visit_order,
\* num_edges_added) and two logs, the (position, label) pairs for which a
\* mate was sought and the (position of v, position of mate) pairs of the
\* edges inserted; p is the position of v in visit_order, q that of the mate
RECURSIVE FindMate(_, _, _, _)
FindMate(st, p, q, l) ==
    IF q > Len(st.visit_order) THEN st
    ELSE LET v == st.visit_order[p][1]
             mate == st.visit_order[q]
             v_label_bitmask == {st.g.vertex_labels_[v]}
         IN Local(add_edge(st.g, v, mate[1]),
                  LAMBDA added :
                    IF mate[2] \cap v_label_bitmask # {}
                       /\ st.g.vertex_labels_[mate[1]] = l
                       /\ added.ok
                    THEN [ st EXCEPT
                             !.g = added.g,
                             !.visit_order =
                                 [st.visit_order EXCEPT
                                     ![q] = << mate[1], Xor(mate[2], v_label_bitmask) >>],
                             !.num_edges_added = st.num_edges_added + 1,
                             !.inserted = Append(st.inserted, << p, q >>) ]
                    ELSE FindMate(st, p, q + 1, l))

\* the loop over the deficient labels of v (lines 342-361)
RECURSIVE CorrectLabels(_, _, _, _, _, _)
CorrectLabels(st, p, defs, i, num_def_labels, undefined) ==
    IF ~ult(i, num_def_labels) THEN st
    ELSE Local(LowestBit(defs),
           LAMBDA l :
             Local(<< FindMate([st EXCEPT !.sought = Append(st.sought, << p, l >>)],
                               p, p + 1, l),
                      Xor(defs, Shl1(l - 1, undefined)) >>,
                   LAMBDA next :
                     CorrectLabels(next[1], p, next[2], i + 1, num_def_labels, undefined)))

\* the loop over visit_order (lines 334-362)
RECURSIVE VisitFrom(_, _, _)
VisitFrom(st, p, undefined) ==
    IF p > Len(st.visit_order) THEN st
    ELSE Local(st.visit_order[p][2],
           LAMBDA defs :
             Local(CorrectLabels(st, p, defs, 0, Cardinality(defs), undefined),
                   LAMBDA next : VisitFrom(next, p + 1, undefined)))

\* the runs of Graph::run_greedy_iteration( alpha ), one for each shuffle
GreedyIterationRuns(G, alpha, undefined) ==
    Local(get_global_ld(G),
      LAMBDA global :
        Local(DeficientFrom(G, alpha, global, 0),
          LAMBDA visit_order :
            { VisitFrom([ g |-> G, visit_order |-> order, num_edges_added |-> 0,
                          queued |-> visit_order,
                          sought |-> << >>, inserted |-> << >> ], 1, undefined) :
                order \in Shuffles(visit_order) }))

\* Graph::run_greedy_iteration( alpha ): the outcomes (graph afterwards,
\* num_edges_added)
run_greedy_iteration(G, alpha, undefined) ==
    { [ g |-> r.g, num_edges_added |-> r.num_edges_added ] :
        r \in GreedyIterationRuns(G, alpha, undefined) }

\* mutant: the inserted edge's first endpoint loses its label
add_random_edge_relabels(G) ==
    IF G.m_ = G.n_ * (G.n_ - 1) THEN { [ g |-> G, returns |-> TRUE ] }
    ELSE IF Insertable(G) = {} THEN { [ g |-> G, returns |-> FALSE ] }
    ELSE { [ g |-> [ add_edge(G, e[1], e[2]).g EXCEPT !.vertex_labels_[e[1]] = 0 ],
             returns |-> TRUE ] : e \in Insertable(G) }

\* Graph::add_random_edge(): the outcomes (graph afterwards, whether the call
\* returns).  The sampler draws every pair again and again, so the loop ends
\* with one of the pairs add_edge accepts; if there is none it never ends.
add_random_edge(G) ==
    IF is_complete(G) THEN { [ g |-> G, returns |-> TRUE ] }
    ELSE IF Insertable(G) = {} THEN { [ g |-> G, returns |-> FALSE ] }
    ELSE { [ g |-> add_edge(G, e[1], e[2]).g, returns |-> TRUE ] : e \in Insertable(G) }

Alphas == { << a, AlphaDen >> : a \in 0..AlphaDen }

\* the caller builds the labelled graph edge by edge (file constructor)
LabelledBuildEdge ==
    /\ pc = "idle"
    /\ \E u \in 0..(graph.n_ - 1), v \in 0..(graph.n_ - 1) :
          /\ add_edge(graph, u, v).ok
          /\ graph' = add_edge(graph, u, v).g
    /\ before' = graph'
    /\ UNCHANGED << pc, args, ret >>

\* entry of hopeful( alpha ): bool leaks_privacy = !is_alpha_proximal( alpha )
HopefulCall ==
    /\ pc = "idle"
    /\ \E alpha \in Alphas :
          args' = [ op |-> "hopeful", alpha |-> alpha,
                    leaks_privacy |-> ~is_alpha_proximal(graph, alpha) ]
    /\ pc' = "hopeful"
    /\ UNCHANGED << graph, before, ret >>

\* the test of the while loop of hopeful and one pass of its body
HopefulLoop ==
    /\ pc = "hopeful"
    /\ IF args.leaks_privacy /\ ~is_complete(graph)
       THEN IF is_alpha_proximal(graph, args.alpha)
            THEN /\ args' = [args EXCEPT !.leaks_privacy = FALSE]
                 /\ UNCHANGED << graph, pc >>
            ELSE \E r \in add_random_edge(graph) :
                    /\ graph' = r.g
                    /\ pc' = IF r.returns THEN "hopeful" ELSE "diverged"
                    /\ args' = args
       ELSE /\ pc' = "returned"
            /\ UNCHANGED << graph, args >>
    /\ UNCHANGED << before, ret >>

\* entry of greedy( alpha )
GreedyCall ==
    /\ pc = "idle"
    /\ \E alpha \in Alphas :
          args' = [ op |-> "greedy", alpha |-> alpha,
                    leaks_privacy |-> ~is_alpha_proximal(graph, alpha) ]
    /\ pc' = "greedy"
    /\ UNCHANGED << graph, before, ret >>

\* the test of the while loop of greedy and one pass of its body
GreedyLoop ==
    /\ pc = "greedy"
    /\ IF args.leaks_privacy /\ ~is_complete(graph)
       THEN \E undefined \in UndefinedShift :
            \E it \in run_greedy_iteration(graph, args.alpha, undefined) :
               IF is_alpha_proximal(it.g, args.alpha)
               THEN /\ graph' = it.g
                    /\ args' = [args EXCEPT !.leaks_privacy = FALSE]
                    /\ pc' = pc
               ELSE IF it.num_edges_added = 0
               THEN \E r \in add_random_edge(it.g) :
                       /\ graph' = r.g
                       /\ pc' = IF r.returns THEN "greedy" ELSE "diverged"
                       /\ args' = args
               ELSE /\ graph' = it.g
                    /\ args' = args
                    /\ pc' = pc
       ELSE /\ pc' = "returned"
            /\ UNCHANGED << graph, args >>
    /\ UNCHANGED << before, ret >>

InitAlpha ==
    /\ \E n \in 0..MaxLabelledN, l \in 1..MaxLabels :
         \E labels \in [0..(n - 1) -> 0..(l - 1)] :
            graph = [Graph(n, l) EXCEPT !.vertex_labels_ = labels]
    /\ before = graph
    /\ pc = "idle"
    /\ args = [op |-> "none"]
    /\ ret = FALSE

NextAlpha == LabelledBuildEdge \/ HopefulCall \/ HopefulLoop \/ GreedyCall \/ GreedyLoop

SpecAlpha == InitAlpha /\ [][NextAlpha]_vars

\* the loops of a running call keep taking their next step
FairSpecAlpha == SpecAlpha /\ WF_vars(HopefulLoop) /\ WF_vars(GreedyLoop)

EveryPairAdjacent(G) ==
    \A u, v \in 0..(G.n_ - 1) : u # v => v \in G.adjacency_list_[u]

Running == pc \in {"greedy", "hopeful"}

GreedyAndHopefulReturn ==
    /\ Running ~> (pc = "returned")
    /\ [][ (Running /\ args.leaks_privacy /\ args'.leaks_privacy)
              => (pc' = pc /\ graph'.m_ > graph.m_) ]_vars
    /\ [](EveryPairAdjacent(graph) =>
              \A alpha \in Alphas : is_alpha_proximal(graph, alpha))

GreedyAndHopefulReturnWitness ==
    /\ pc = "returned" /\ args.op = "greedy"
    /\ ~is_alpha_proximal(before, args.alpha)
    /\ EveryPairAdjacent(graph)
    /\ graph.n_ = 3
    /\ before.m_ = 0

(***************************************************************************)
(* The graph store under every public operation of both classes.           *)
(***************************************************************************)
\* a caller starts an operation while the graph is within the bounds
StoreOpen ==
    /\ pc = "idle"
    /\ graph.n_ <= MaxWaldoN
    /\ graph.m_ <= MaxWaldoEdges

\* a call add_edge( u, v ) with u and v in [0, n_)
AddEdgeCall ==
    /\ StoreOpen
    /\ \E u \in 0..(graph.n_ - 1), v \in 0..(graph.n_ - 1) :
          LET r == add_edge(graph, u, v)
          IN /\ graph' = r.g
             /\ ret' = r.ok
             /\ args' = [op |-> "add_edge", u |-> u, v |-> v]
    /\ before' = graph
    /\ pc' = "returned"

\* a call UnlabelledGraph::add_vertices( num_vertices )
AddVerticesCall ==
    /\ StoreOpen
    /\ graph.cls = "UnlabelledGraph"
    /\ \E num_vertices \in 0..(MaxWaldoN - graph.n_) :
          /\ graph' = add_vertices(graph, num_vertices)
          /\ args' = [op |-> "add_vertices", num_vertices |-> num_vertices]
    /\ before' = graph
    /\ pc' = "returned"
    /\ UNCHANGED ret

\* a call add_random_edge()
AddRandomEdgeCall ==
    /\ StoreOpen
    /\ \E r \in add_random_edge(graph) :
          /\ graph' = r.g
          /\ pc' = IF r.returns THEN "returned" ELSE "diverged"
    /\ args' = [op |-> "add_random_edge"]
    /\ before' = graph
    /\ UNCHANGED ret

\* get_occupancy(): the quotient as (dividend, divisor); with n_ = 1 the
\* divisor is 0 and the float is a NaN
get_occupancy(G) ==
    IF G.n_ = 0 THEN Zero
    ELSE IF G.cls = "UnlabelledGraph"
    THEN << G.m_, (G.n_ * (G.n_ - 1)) * 2 >>
    ELSE << G.m_ * 2, G.n_ * (G.n_ - 1) >>

\* a call get_occupancy()
GetOccupancyCall ==
    /\ StoreOpen
    /\ args' = [op |-> "get_occupancy", result |-> get_occupancy(graph)]
    /\ before' = graph
    /\ pc' = "returned"
    /\ UNCHANGED << graph, ret >>

\* populate_uniformly reads no label: it is called on the graphs of InitPop
StorePopulateCall ==
    /\ StoreOpen
    /\ graph.n_ <= MaxVertices
    /\ graph.l_ <= 1
    /\ PopulateCall

\* hide_waldo is a member of UnlabelledGraph
StoreHideWaldo == StoreOpen /\ graph.cls = "UnlabelledGraph" /\ HideWaldo

\* hopeful and greedy are members of Graph
StoreHopefulCall == StoreOpen /\ graph.cls = "Graph" /\ HopefulCall

StoreGreedyCall == StoreOpen /\ graph.cls = "Graph" /\ GreedyCall

\* the caller goes on after a call returned
StoreResume ==
    /\ pc = "returned"
    /\ pc' = "idle"
    /\ args' = [op |-> "none"]
    /\ before' = graph
    /\ ret' = FALSE
    /\ UNCHANGED graph

\* the constructors: n isolated vertices; Graph reads its labels from a file
InitStore ==
    /\ \/ \E n \in 0..MaxWaldoN : graph = UnlabelledGraph(n)
       \/ \E n \in 0..MaxLabelledN, l \in 1..MaxLabels :
               \E labels \in [0..(n - 1) -> 0..(l - 1)] :
                  graph = [Graph(n, l) EXCEPT !.vertex_labels_ = labels]
    /\ before = graph
    /\ pc = "idle"
    /\ args = [op |-> "none"]
    /\ ret = FALSE

NextStore ==
    \/ AddEdgeCall
    \/ AddVerticesCall
    \/ AddRandomEdgeCall
    \/ GetOccupancyCall
    \/ StorePopulateCall
    \/ PopulateStep
    \/ StoreHideWaldo
    \/ StoreHopefulCall
    \/ HopefulLoop
    \/ StoreGreedyCall
    \/ GreedyLoop
    \/ StoreResume

SpecStore == InitStore /\ [][NextStore]_vars

(***************************************************************************)
(* C12.  add_edge(u, v) with u, v in [0, n) returns true iff u # v and the *)
(* edge is absent in both directions, and then adds v to adjacency[u], u   *)
(* to adjacency[v] and increments the edge count by 1; otherwise it        *)
(* returns false and changes nothing.  After a successful add_edge(u, v)   *)
(* the same call, or add_edge(v, u), returns false and leaves the edge     *)
(* count unchanged.                                                        *)
(***************************************************************************)
AddEdgeContract ==
    (pc = "returned" /\ args.op = "add_edge") =>
        LET u == args.u
            v == args.v
            absent == /\ u # v
                      /\ v \notin before.adjacency_list_[u]
                      /\ u \notin before.adjacency_list_[v]
        IN /\ ret = absent
           /\ ret => /\ graph.m_ = before.m_ + 1
                     /\ graph.adjacency_list_[u] = before.adjacency_list_[u] \cup {v}
                     /\ graph.adjacency_list_[v] = before.adjacency_list_[v] \cup {u}
                     /\ \A w \in 0..(graph.n_ - 1) \ {u, v} :
                           graph.adjacency_list_[w] = before.adjacency_list_[w]
                     /\ graph.n_ = before.n_
                     /\ graph.vertex_labels_ = before.vertex_labels_
                     /\ \A e \in {<< u, v >>, << v, u >>} :
                           /\ ~add_edge(graph, e[1], e[2]).ok
                           /\ add_edge(graph, e[1], e[2]).g = graph
           /\ ~ret => graph = before

AddEdgeContractWitness ==
    /\ pc = "returned" /\ args.op = "add_edge"
    /\ ret
    /\ before.m_ = 1
    /\ args.u > args.v

(***************************************************************************)
(* C13.  In every state reachable from an empty graph by add_edge,         *)
(* add_vertices, add_random_edge, populate_uniformly, hide_waldo, greedy   *)
(* and hopeful calls, the adjacency structure has exactly n entries, has   *)
(* no self-loop, is symmetric, and the edge count is half the sum of the   *)
(* sizes of the neighbour sets.                                            *)
(***************************************************************************)
RECURSIVE DegreeSum(_, _)
DegreeSum(G, i) ==
    IF i = 0 THEN 0
    ELSE Cardinality(G.adjacency_list_[i - 1]) + DegreeSum(G, i - 1)

StoreInvariant ==
    /\ DOMAIN graph.adjacency_list_ = 0..(graph.n_ - 1)
    /\ \A u \in 0..(graph.n_ - 1) :
          /\ u \notin graph.adjacency_list_[u]
          /\ graph.adjacency_list_[u] \subseteq 0..(graph.n_ - 1)
          /\ \A v \in graph.adjacency_list_[u] : u \in graph.adjacency_list_[v]
    /\ 2 * graph.m_ = DegreeSum(graph, graph.n_)

StoreInvariantWitness ==
    /\ pc = "returned" /\ args.op = "hide_waldo"
    /\ graph.n_ > before.n_
    /\ graph.m_ > before.m_
    /\ before.m_ > 0

(***************************************************************************)
(* C14.  greedy(alpha) and hopeful(alpha) only ever add edges: at every    *)
(* step of a run the vertex labels and the vertex count are unchanged, no  *)
(* existing edge is removed, and the edge count is monotonically           *)
(* non-decreasing and never exceeds n(n-1)/2.                              *)
(***************************************************************************)
Extends(G, H) ==
    /\ G.n_ = H.n_
    /\ G.l_ = H.l_
    /\ G.vertex_labels_ = H.vertex_labels_
    /\ \A v \in 0..(H.n_ - 1) : H.adjacency_list_[v] \subseteq G.adjacency_list_[v]
    /\ G.m_ >= H.m_

EnginesOnlyAddEdges ==
    /\ [][ (pc \in {"greedy", "hopeful"} \/ pc' \in {"greedy", "hopeful"})
              => Extends(graph', graph) ]_vars
    /\ [](pc \in {"greedy", "hopeful", "returned", "diverged"} =>
              /\ Extends(graph, before)
              /\ 2 * graph.m_ <= graph.n_ * (graph.n_ - 1))

EnginesOnlyAddEdgesWitness ==
    /\ pc = "greedy"
    /\ graph.m_ > before.m_
    /\ before.m_ > 0
    /\ \E u, v \in 0..(graph.n_ - 1) : graph.vertex_labels_[u] # graph.vertex_labels_[v]

(***************************************************************************)
(* The two LabelDistribution implementations as functions of their inputs. *)
(* label_distribution.cpp and labelled_graph/label_distribution.cpp have   *)
(* the same constructor, get_length and distance; get_frequency differs in *)
(* its range test.                                                         *)
(***************************************************************************)
Implementations == { "label_distribution.cpp", "labelled_graph/label_distribution.cpp" }

\* std::vector< uint32_t > with the given elements
Vec(elements) == [ i \in 0..(Len(elements) - 1) |-> elements[i + 1] ]

\* the vectors of label_distribution.test.cpp
TestVectors == { Vec(<< 7, 2, 1 >>), Vec(<< 2, 4, 4 >>), Vec(<< 5 >>), Vec(<< 9 >>),
                 Vec(<< 9, 4 >>) }

CountVectors ==
    UNION { [ 0..(len - 1) -> 0..MaxCount ] : len \in 1..MaxLDLen } \cup TestVectors

\* what a read of frequencies_[ pos ] past the end of the vector may yield
IndeterminateCounts == 0..(MaxCount + 1)

\* get_frequency( pos ) of either implementation: the values the call may
\* return, each with whether frequencies_ was read outside its bounds
get_frequency_outcomes(impl, ld, pos) ==
    IF \/ impl = "label_distribution.cpp" /\ ugt(pos, get_length(ld))
       \/ impl = "labelled_graph/label_distribution.cpp" /\ ~ult(pos, get_length(ld))
       \/ ld.sum_ = 0
    THEN { [ value |-> Zero, out_of_bounds |-> FALSE ] }
    ELSE IF pos \in DOMAIN ld.frequencies_
    THEN { [ value |-> << ld.frequencies_[pos], ld.sum_ >>, out_of_bounds |-> FALSE ] }
    ELSE { [ value |-> << x, ld.sum_ >>, out_of_bounds |-> TRUE ] :
             x \in IndeterminateCounts }

\* a->distance( b )
DistanceCall ==
    /\ pc = "idle"
    /\ args' = [ args EXCEPT !.op = "distance",
                             !.result = distance(args.a, args.b) ]
    /\ before' = [ a |-> args.a, b |-> args.b ]
    /\ pc' = "returned"
    /\ UNCHANGED << graph, ret >>

\* a->get_frequency( pos )
GetFrequencyCall ==
    /\ pc = "idle"
    /\ \E pos \in 0..(MaxLDLen + 1) :
       \E r \in get_frequency_outcomes(args.impl, args.a, pos) :
          args' = [ args EXCEPT !.op = "get_frequency", !.pos = pos,
                                !.result = r.value,
                                !.out_of_bounds = r.out_of_bounds ]
    /\ before' = [ a |-> args.a, b |-> args.b ]
    /\ pc' = "returned"
    /\ UNCHANGED << graph, ret >>

InitLD ==
    /\ graph = UnlabelledGraph(0)
    /\ before = graph
    /\ pc = "idle"
    /\ ret = FALSE
    /\ \E impl \in Implementations, a \in CountVectors, b \in CountVectors :
          args = [ op |-> "none", impl |-> impl,
                   a |-> LabelDistribution(a), b |-> LabelDistribution(b),
                   pos |-> 0, alpha |-> Zero, result |-> Zero,
                   out_of_bounds |-> FALSE ]

\* the thresholds handed to get_deficiencies
DeficiencyAlphas == Alphas \cup { << 3, 2 >>, << 2, 1 >> }

\* a->get_deficiencies( b, alpha ) on distributions of the same length
GetDeficienciesCall ==
    /\ pc = "idle"
    /\ get_length(args.a) = get_length(args.b)
    /\ \E alpha \in DeficiencyAlphas :
          args' = [ args EXCEPT !.op = "get_deficiencies", !.alpha = alpha,
                                !.result = get_deficiencies(args.a, args.b, alpha) ]
    /\ before' = [ a |-> args.a, b |-> args.b ]
    /\ pc' = "returned"
    /\ UNCHANGED << graph, ret >>

NextLD == DistanceCall \/ GetFrequencyCall \/ GetDeficienciesCall

SpecLD == InitLD /\ [][NextLD]_vars

\* two fractions denote the same number
FracEq(x, y) ==
    LET gx == GCD(Abs(x[1]), x[2])
        gy == GCD(Abs(y[1]), y[2])
    IN << x[1] \div gx, x[2] \div gx >> = << y[1] \div gy, y[2] \div gy >>

(***************************************************************************)
(* C15.  For all pairs of label distributions a, b of equal length,        *)
(* distance(a, b) = distance(b, a), and distance(a, a) = 0 for every       *)
(* distribution a, those whose frequency sum is 0 included.                *)
(***************************************************************************)
DistanceSymmetric ==
    (pc = "returned" /\ args.op = "distance") =>
        /\ get_length(args.a) = get_length(args.b) =>
              FracEq(args.result, distance(args.b, args.a))
        /\ args.a = args.b => FracEq(args.result, Zero)
        /\ FracEq(distance(args.a, args.a), Zero)

DistanceSymmetricWitness ==
    /\ pc = "returned" /\ args.op = "distance"
    /\ get_length(args.a) = 3 /\ get_length(args.b) = 3
    /\ args.a.sum_ = 0 /\ args.b.sum_ > 1
    /\ FracGt(args.result, Zero)

(***************************************************************************)
(* C16.  For two distributions of equal length L >= 1, distance is the     *)
(* sum over the labels i = 0..L-2 of |freq_a(i)/sum_a - freq_b(i)/sum_b|;  *)
(* the last label is excluded.  So {7,2,1} against {2,4,4} gives 7/10 and  *)
(* two single-label distributions give 0.                                  *)
(***************************************************************************)
\* the relative frequency of label i in a vector of counts (0 when empty)
RelativeFrequency(counts, i) ==
    LET total == SumUpTo(counts, Cardinality(DOMAIN counts) - 1)
    IN IF total = 0 THEN Zero ELSE << counts[i], total >>

RECURSIVE SumOfDifferences(_, _, _)
SumOfDifferences(x, y, labels) ==
    IF labels = {} THEN Zero
    ELSE LET i == CHOOSE j \in labels : TRUE
             d == FracSub(RelativeFrequency(x, i), RelativeFrequency(y, i))
         IN Reduce(FracAdd(<< Abs(d[1]), d[2] >>,
                           SumOfDifferences(x, y, labels \ {i})))

DistanceIsSumWithoutLastLabel ==
    (pc = "returned" /\ args.op = "distance"
        /\ get_length(args.a) = get_length(args.b)) =>
        LET x == args.a.frequencies_
            y == args.b.frequencies_
            L == Cardinality(DOMAIN x)
        IN /\ FracEq(args.result, SumOfDifferences(x, y, 0..(L - 2)))
           /\ (x = Vec(<< 7, 2, 1 >>) /\ y = Vec(<< 2, 4, 4 >>)) =>
                 FracEq(args.result, << 7, 10 >>)
           /\ L = 1 => FracEq(args.result, Zero)

DistanceIsSumWitness ==
    /\ pc = "returned" /\ args.op = "distance"
    /\ args.a.frequencies_ = Vec(<< 7, 2, 1 >>)
    /\ args.b.frequencies_ = Vec(<< 2, 4, 4 >>)
    /\ args.result[1] * 10 = 7 * args.result[2]

(***************************************************************************)
(* C17.  distance between two distributions of unequal length returns the  *)
(* LD_INCOMPARABLE sentinel (-1), whichever of the two is the receiver,    *)
(* and modifies neither distribution.                                      *)
(***************************************************************************)
UnequalLengthsIncomparable ==
    (pc = "returned" /\ args.op = "distance"
        /\ get_length(args.a) # get_length(args.b)) =>
        /\ args.result = << -1, 1 >>
        /\ args.result = LD_INCOMPARABLE
        /\ distance(args.b, args.a) = LD_INCOMPARABLE
        /\ args.a = before.a
        /\ args.b = before.b

UnequalLengthsWitness ==
    /\ pc = "returned" /\ args.op = "distance"
    /\ args.a.frequencies_ = Vec(<< 9, 4 >>)
    /\ args.b.frequencies_ = Vec(<< 5 >>)
    /\ args.result = LD_INCOMPARABLE

(***************************************************************************)
(* C18.  In both implementations get_frequency(i) never reads outside the  *)
(* frequency array: it returns 0 for every index i >= length (i = length   *)
(* included) and whenever sum = 0, and frequencies[i]/sum otherwise.       *)
(***************************************************************************)
GetFrequencyStaysInBounds ==
    (pc = "returned" /\ args.op = "get_frequency") =>
        /\ ~args.out_of_bounds
        /\ IF args.pos >= get_length(args.a) \/ args.a.sum_ = 0
           THEN args.result = Zero
           ELSE args.result = << args.a.frequencies_[args.pos], args.a.sum_ >>

(***************************************************************************)
(* C19.  For Graph and for UnlabelledGraph with n >= 2, get_occupancy() is *)
(* m / (n(n-1)/2), the fraction of the complete graph's edges that are     *)
(* present (1 when every pair of distinct vertices is adjacent); it is 0   *)
(* when n = 0.                                                             *)
(***************************************************************************)
OccupancyIsFractionOfCompleteGraph ==
    (pc = "returned" /\ args.op = "get_occupancy") =>
        /\ graph.n_ = 0 => args.result = Zero
        /\ graph.n_ >= 2 =>
              /\ args.result[2] # 0
              /\ args.result[1] * (graph.n_ * (graph.n_ - 1))
                    = 2 * graph.m_ * args.result[2]
              /\ EveryPairAdjacent(graph) => args.result[1] = args.result[2]

(***************************************************************************)
(* hop_plot.  A HopPlot (std::map from path length to count) is a function *)
(* whose domain is the set of keys.  Every thread of the team owns some of *)
(* the iterations of the loop over the source vertices and fills its own   *)
(* HopPlot; the plots are added up at the end.                             *)
(***************************************************************************)
\* my_hop_plot[ d ] = c if there is no entry for d, my_hop_plot.at( d ) += c
\* otherwise
PlotAdd(plot, d, c) ==
    IF d \in DOMAIN plot THEN [plot EXCEPT ![d] = @ + c] ELSE plot @@ (d :> c)

\* the orders in which a range-for may go through an unordered_set
IterationOrders == { "ascending", "descending" }

RECURSIVE Iterate(_, _)
Iterate(S, order) ==
    IF S = {} THEN << >>
    ELSE LET x == CHOOSE y \in S :
                     \A z \in S : IF order = "ascending" THEN y <= z ELSE y >= z
         IN << x >> \o Iterate(S \ {x}, order)

\* the loop over the neighbours of the vertex v popped with path length d
RECURSIVE VisitNeighbours(_, _, _)
VisitNeighbours(st, neighbours, d) ==
    IF neighbours = << >> THEN st
    ELSE LET neighbour == Head(neighbours)
         IN IF neighbour \notin st.visited
            THEN VisitNeighbours([ visited |-> st.visited \cup {neighbour},
                                   q |-> Append(st.q, << neighbour, d + 1 >>),
                                   my_hop_plot |-> PlotAdd(st.my_hop_plot, d + 1, 1) ],
                                 Tail(neighbours), d)
            ELSE VisitNeighbours(st, Tail(neighbours), d)

\* while( ! q.empty() )
RECURSIVE BreadthFirst(_, _, _)
BreadthFirst(G, st, order) ==
    IF st.q = << >> THEN st.my_hop_plot
    ELSE LET v == Head(st.q)[1]
             d == Head(st.q)[2]
         IN BreadthFirst(G,
                VisitNeighbours([st EXCEPT !.q = Tail(st.q)],
                                Iterate(G.adjacency_list_[v], order), d),
                order)

\* the body of the parallel loop for the source vertex i
SourceIteration(G, i, my_hop_plot, order) ==
    BreadthFirst(G,
        [ visited |-> {i} \cup G.adjacency_list_[i],
          q |-> [ j \in 1..Cardinality(G.adjacency_list_[i]) |->
                    << Iterate(G.adjacency_list_[i], order)[j], 1 >> ],
          my_hop_plot |-> PlotAdd(my_hop_plot, 1, Cardinality(G.adjacency_list_[i])) ],
        order)

\* the iterations from i on that the thread owns, in increasing order
RECURSIVE ThreadPlot(_, _, _, _, _, _)
ThreadPlot(G, owner, thread, i, my_hop_plot, order) ==
    IF i >= G.n_ THEN my_hop_plot
    ELSE ThreadPlot(G, owner, thread, i + 1,
                    IF owner[i] = thread
                    THEN SourceIteration(G, i, my_hop_plot, order)
                    ELSE my_hop_plot,
                    order)

\* the lambda of the reduction: the entries of hopplot are added to result
RECURSIVE AddEntries(_, _, _)
AddEntries(result, hopplot, keys) ==
    IF keys = {} THEN result
    ELSE LET k == CHOOSE x \in keys : TRUE
         IN AddEntries(PlotAdd(result, k, hopplot[k]), hopplot, keys \ {k})

\* mutant: the plots of the other threads are dropped
RECURSIVE ReduceFrom(_, _, _)
ReduceFrom_first_only(hopplots, t, result) == result

\* std::for_each over hopplots[ 1 ], hopplots[ 2 ], ...
ReduceFrom(hopplots, t, result) ==
    IF t \notin DOMAIN hopplots THEN result
    ELSE ReduceFrom(hopplots, t + 1,
                    AddEntries(result, hopplots[t], DOMAIN hopplots[t]))

\* UnlabelledGraph::hop_plot() with a team of num_threads threads, owner[i]
\* the thread that runs iteration i
hop_plot(G, num_threads, owner, order) ==
    LET hopplots == [ t \in 0..(num_threads - 1) |->
                        ThreadPlot(G, owner, t, 0, << >>, order) ]
    IN ReduceFrom(hopplots, 1, hopplots[0])

\* a call hop_plot()
HopPlotCall ==
    /\ pc = "idle"
    /\ \E num_threads \in 1..MaxThreads, order \in IterationOrders :
       \E owner \in [ 0..(graph.n_ - 1) -> 0..(num_threads - 1) ] :
          args' = [ op |-> "hop_plot", num_threads |-> num_threads,
                    result |-> hop_plot(graph, num_threads, owner, order) ]
    /\ before' = graph
    /\ pc' = "returned"
    /\ UNCHANGED << graph, ret >>

InitHop ==
    /\ \E n \in 0..MaxHopN : graph = UnlabelledGraph(n)
    /\ before = graph
    /\ pc = "idle"
    /\ args = [op |-> "none"]
    /\ ret = FALSE

NextHop == BuildEdge \/ HopPlotCall

SpecHop == InitHop /\ [][NextHop]_vars

(***************************************************************************)
(* C20.  For every graph and every d >= 1, the hop_plot() entry for d (0   *)
(* if absent) is the number of ordered pairs (u, v), u # v, whose shortest *)
(* path has exactly d edges; so the entries sum to n(n-1) when the graph   *)
(* is connected, and unreachable pairs contribute to no entry.             *)
(***************************************************************************)
\* the vertices that a walk of at most d edges from u reaches
RECURSIVE Within(_, _, _)
Within(G, u, d) ==
    IF d = 0 THEN {u}
    ELSE LET W == Within(G, u, d - 1)
         IN W \cup UNION { G.adjacency_list_[w] : w \in W }

PairsAtDistance(G, d) ==
    { e \in (0..(G.n_ - 1)) \X (0..(G.n_ - 1)) :
        e[2] \in Within(G, e[1], d) \ Within(G, e[1], d - 1) }

Entry(plot, d) == IF d \in DOMAIN plot THEN plot[d] ELSE 0

RECURSIVE SumOfEntries(_, _)
SumOfEntries(plot, keys) ==
    IF keys = {} THEN 0
    ELSE LET k == CHOOSE x \in keys : TRUE
         IN plot[k] + SumOfEntries(plot, keys \ {k})

Connected(G) == \A u \in 0..(G.n_ - 1) : Within(G, u, G.n_) = 0..(G.n_ - 1)

HopPlotCountsShortestPaths ==
    (pc = "returned" /\ args.op = "hop_plot") =>
        /\ DOMAIN args.result \subseteq 1..graph.n_
        /\ \A d \in 1..(graph.n_ + 1) :
              Entry(args.result, d) = Cardinality(PairsAtDistance(graph, d))
        /\ Connected(graph) =>
              SumOfEntries(args.result, DOMAIN args.result)
                 = graph.n_ * (graph.n_ - 1)
        /\ SumOfEntries(args.result, DOMAIN args.result)
              = Cardinality({ e \in (0..(graph.n_ - 1)) \X (0..(graph.n_ - 1)) :
                                e[1] # e[2] /\ e[2] \in Within(graph, e[1], graph.n_) })

HopPlotWitness ==
    /\ pc = "returned" /\ args.op = "hop_plot"
    /\ args.num_threads = 2
    /\ Entry(args.result, 3) = 2
    /\ Entry(args.result, 2) = 4

(***************************************************************************)
(* Graph metrics of UnlabelledGraph: clustering coefficient and path       *)
(* length.  A clustering coefficient is the pair of counters whose         *)
(* quotient is returned (a NaN when possible_triangles is 0).              *)
(***************************************************************************)
Vertices(G) == 0..(G.n_ - 1)

\* std::accumulate of size() * ( size() - 1 ) over adjacency_list_
RECURSIVE AccumulateOpenTriangles(_, _)
AccumulateOpenTriangles(G, u) ==
    IF u >= G.n_ THEN 0
    ELSE Cardinality(G.adjacency_list_[u]) * (Cardinality(G.adjacency_list_[u]) - 1)
            + AccumulateOpenTriangles(G, u + 1)

\* clustering_coefficient(): the loops over u, v in adjacency_list_[ u ] and
\* w in adjacency_list_[ u ]; the reduction adds the threads' counters
clustering_coefficient(G) ==
    [ closed_triangles |->
          Cardinality({ t \in Vertices(G) \X Vertices(G) \X Vertices(G) :
                          /\ t[2] \in G.adjacency_list_[t[1]]
                          /\ t[3] \in G.adjacency_list_[t[1]]
                          /\ t[2] # t[3]
                          /\ t[3] \in G.adjacency_list_[t[2]] }),
      possible_triangles |-> AccumulateOpenTriangles(G, 0) ]

\* mutant: the tests u == w and v == w are dropped
clustering_coefficient_brute_force_any_w(G) ==
    LET paths == { t \in Vertices(G) \X Vertices(G) \X Vertices(G) :
                     /\ t[1] # t[2]
                     /\ t[2] \in G.adjacency_list_[t[1]]
                     /\ t[3] \in G.adjacency_list_[t[2]] }
    IN [ closed_triangles |->
             Cardinality({ t \in paths : t[3] \in G.adjacency_list_[t[1]] }),
         possible_triangles |-> Cardinality(paths) ]

\* clustering_coefficient_brute_force(): all ordered triplets (u, v, w)
clustering_coefficient_brute_force(G) ==
    LET paths == { t \in Vertices(G) \X Vertices(G) \X Vertices(G) :
                     /\ t[1] # t[2]
                     /\ t[1] # t[3] /\ t[2] # t[3]
                     /\ t[2] \in G.adjacency_list_[t[1]]
                     /\ t[3] \in G.adjacency_list_[t[2]] }
    IN [ closed_triangles |->
             Cardinality({ t \in paths : t[3] \in G.adjacency_list_[t[1]] }),
         possible_triangles |-> Cardinality(paths) ]

\* a call clustering_coefficient()
ClusteringCoefficientCall ==
    /\ pc = "idle"
    /\ args' = [ op |-> "clustering_coefficient",
                 result |-> clustering_coefficient(graph) ]
    /\ before' = graph
    /\ pc' = "returned"
    /\ UNCHANGED << graph, ret >>

\* a call clustering_coefficient_brute_force()
ClusteringCoefficientBruteForceCall ==
    /\ pc = "idle"
    /\ args' = [ op |-> "clustering_coefficient_brute_force",
                 result |-> clustering_coefficient_brute_force(graph) ]
    /\ before' = graph
    /\ pc' = "returned"
    /\ UNCHANGED << graph, ret >>

\* calculate_path_length: the loop over the direct neighbours of u; the
\* result is the value returned or the queue and visited set to go on with
RECURSIVE PathFirstLoop(_, _, _)
PathFirstLoop(neighbours, v, st) ==
    IF neighbours = << >> THEN st
    ELSE IF Head(neighbours) = v
    THEN [ st EXCEPT !.returned = TRUE, !.value = 1 ]
    ELSE PathFirstLoop(Tail(neighbours), v,
                       [ st EXCEPT !.q = Append(st.q, << v, 1 >>),
                                   !.visited = st.visited \cup {v} ])

\* calculate_path_length: the loop over the neighbours of the popped vertex
RECURSIVE PathNeighbourLoop(_, _, _, _)
PathNeighbourLoop(neighbours, v, num_hops, st) ==
    IF neighbours = << >> THEN st
    ELSE LET neighbour == Head(neighbours)
         IN IF neighbour = v
            THEN [ st EXCEPT !.returned = TRUE, !.value = num_hops + 1 ]
            ELSE IF neighbour \notin st.visited
            THEN PathNeighbourLoop(Tail(neighbours), v, num_hops,
                     [ st EXCEPT !.q = Append(st.q, << neighbour, num_hops + 1 >>),
                                 !.visited = st.visited \cup {neighbour} ])
            ELSE PathNeighbourLoop(Tail(neighbours), v, num_hops, st)

\* calculate_path_length: while( !q.empty() ), then return -1
RECURSIVE PathWhile(_, _, _, _)
PathWhile(G, v, st, order) ==
    IF st.returned THEN st.value
    ELSE IF st.q = << >> THEN -1
    ELSE PathWhile(G, v,
             PathNeighbourLoop(Iterate(G.adjacency_list_[Head(st.q)[1]], order), v,
                               Head(st.q)[2], [ st EXCEPT !.q = Tail(st.q) ]),
             order)

\* UnlabelledGraph::calculate_path_length( u, v )
calculate_path_length(G, u, v, order) ==
    IF u = v THEN 0
    ELSE PathWhile(G, v,
             PathFirstLoop(Iterate(G.adjacency_list_[u], order), v,
                           [ q |-> << >>, visited |-> {}, returned |-> FALSE,
                             value |-> 0 ]),
             order)

\* a call calculate_path_length( u, v ) with u and v in [0, n_)
PathLengthCall ==
    /\ pc = "idle"
    /\ \E u \in Vertices(graph), v \in Vertices(graph), order \in IterationOrders :
          args' = [ op |-> "calculate_path_length", u |-> u, v |-> v,
                    result |-> calculate_path_length(graph, u, v, order) ]
    /\ before' = graph
    /\ pc' = "returned"
    /\ UNCHANGED << graph, ret >>

NextMetrics ==
    \/ BuildEdge
    \/ ClusteringCoefficientCall
    \/ ClusteringCoefficientBruteForceCall
    \/ PathLengthCall

SpecMetrics == InitHop /\ [][NextMetrics]_vars

(***************************************************************************)
(* C21.  For every simple undirected graph, clustering_coefficient() and   *)
(* clustering_coefficient_brute_force() compute the same closed-triangle   *)
(* count and the same possible-triangle count, the sum over u of           *)
(* deg(u)(deg(u) - 1), so their results agree exactly.                     *)
(***************************************************************************)
RECURSIVE SumOverVertices(_, _)
SumOverVertices(G, todo) ==
    IF todo = {} THEN 0
    ELSE LET u == CHOOSE x \in todo : TRUE
             deg == Cardinality(G.adjacency_list_[u])
         IN deg * (deg - 1) + SumOverVertices(G, todo \ {u})

ClusteringCoefficientsAgree ==
    (pc = "returned" /\ args.op \in { "clustering_coefficient",
                                       "clustering_coefficient_brute_force" }) =>
        /\ args.result = clustering_coefficient(graph)
        /\ args.result = clustering_coefficient_brute_force(graph)
        /\ args.result.possible_triangles = SumOverVertices(graph, Vertices(graph))

ClusteringCoefficientsAgreeWitness ==
    /\ pc = "returned" /\ args.op = "clustering_coefficient"
    /\ args.result.closed_triangles = 6
    /\ args.result.possible_triangles = 10

(***************************************************************************)
(* C27.  calculate_path_length(u, v) returns -1 if u and v are             *)
(* disconnected and otherwise the minimum number of edges that must be     *)
(* traversed to reach v from u (0 when u = v), for every graph and every   *)
(* pair of vertices.                                                       *)
(***************************************************************************)
ShortestPathLength(G, u, v) ==
    IF v \notin Within(G, u, G.n_) THEN -1
    ELSE CHOOSE d \in 0..G.n_ :
            /\ v \in Within(G, u, d)
            /\ d > 0 => v \notin Within(G, u, d - 1)

PathLengthIsShortest ==
    (pc = "returned" /\ args.op = "calculate_path_length") =>
        args.result = ShortestPathLength(graph, args.u, args.v)

(***************************************************************************)
(* evenly_distribute_labels.  A draw of rand() that leaves every variable  *)
(* as it was (a vertex already labelled in the first loop, a label already *)
(* in s, rand() % l_ # 0 in the else branch) is a stuttering step.         *)
(***************************************************************************)
\* entry: vertices_per_label and labels_left
EvenlyDistributeCall ==
    /\ pc = "idle"
    /\ graph.cls = "Graph"
    /\ args' = [ op |-> "evenly_distribute_labels",
                 vertices_per_label |-> graph.n_ \div graph.l_,
                 labels_left |-> graph.n_ - (graph.n_ \div graph.l_),
                 cur_label |-> 1, num_assigned |-> 0, s |-> {} ]
    /\ before' = graph
    /\ pc' = "distribute"
    /\ UNCHANGED << graph, ret >>

\* the loops over cur_label and num_assigned
DistributeStep ==
    /\ pc = "distribute"
    /\ IF ult(args.cur_label, graph.l_)
       THEN IF ult(args.num_assigned, args.vertices_per_label)
            THEN \E v \in 0..(graph.n_ - 1) :
                    /\ graph.vertex_labels_[v] = 0
                    /\ graph' = [graph EXCEPT !.vertex_labels_[v] = args.cur_label]
                    /\ args' = [args EXCEPT !.num_assigned = @ + 1]
                    /\ pc' = pc
            ELSE /\ args' = [args EXCEPT !.labels_left = @ - args.vertices_per_label,
                                         !.cur_label = @ + 1,
                                         !.num_assigned = 0]
                 /\ UNCHANGED << graph, pc >>
       ELSE /\ pc' = "remainder"
            /\ UNCHANGED << graph, args >>
    /\ UNCHANGED << before, ret >>

\* "The remainder is then distributed with a random permutation."
RemainderStep ==
    /\ pc = "remainder"
    /\ IF ugt(args.labels_left, 0)
       THEN \E v \in 0..(graph.n_ - 1) :
              IF graph.vertex_labels_[v] = 0
              THEN \E l \in (0..(graph.l_ - 1)) \ args.s :
                      /\ graph' = [graph EXCEPT !.vertex_labels_[v] = l]
                      /\ args' = [args EXCEPT !.s = @ \cup {l}, !.labels_left = @ - 1]
                      /\ pc' = pc
              ELSE /\ args' = [args EXCEPT !.labels_left = @ - 1]
                   /\ UNCHANGED << graph, pc >>
       ELSE /\ pc' = "returned"
            /\ UNCHANGED << graph, args >>
    /\ UNCHANGED << before, ret >>

InitEven ==
    /\ \E n \in 0..MaxEvenN, l \in 1..MaxEvenL : graph = Graph(n, l)
    /\ before = graph
    /\ pc = "idle"
    /\ args = [op |-> "none"]
    /\ ret = FALSE

NextEven == EvenlyDistributeCall \/ DistributeStep \/ RemainderStep

SpecEven == InitEven /\ [][NextEven]_vars

(***************************************************************************)
(* C22.  After evenly_distribute_labels() on a graph of n vertices, all    *)
(* labelled 0, with alphabet size l >= 1, every vertex carries a label in  *)
(* [0, l) and the number of vertices carrying each label is floor(n/l) or  *)
(* ceil(n/l), for every outcome of the random choices.                     *)
(***************************************************************************)
VerticesLabelled(G, label) ==
    Cardinality({ v \in 0..(G.n_ - 1) : G.vertex_labels_[v] = label })

LabelsEvenlyDistributed ==
    (pc = "returned" /\ args.op = "evenly_distribute_labels") =>
        /\ \A v \in 0..(graph.n_ - 1) : graph.vertex_labels_[v] \in 0..(graph.l_ - 1)
        /\ \A label \in 0..(graph.l_ - 1) :
              /\ VerticesLabelled(graph, label) >= graph.n_ \div graph.l_
              /\ VerticesLabelled(graph, label)
                    <= (graph.n_ + graph.l_ - 1) \div graph.l_

(***************************************************************************)
(* C23.  add_random_edge() returns leaving the graph unaffected if the     *)
(* graph is already complete (every pair of distinct vertices adjacent);   *)
(* otherwise it returns after inserting exactly one edge that was not in   *)
(* the graph before.                                                       *)
(***************************************************************************)
AddRandomEdgeReturns ==
    (args.op = "add_random_edge") =>
        /\ pc = "returned"
        /\ IF EveryPairAdjacent(before)
           THEN graph = before
           ELSE /\ graph.m_ = before.m_ + 1
                /\ \E u, v \in 0..(before.n_ - 1) :
                      /\ u # v
                      /\ v \notin before.adjacency_list_[u]
                      /\ graph = add_edge(before, u, v).g

(***************************************************************************)
(* One call of run_greedy_iteration on a labelled graph.                   *)
(***************************************************************************)
\* a call run_greedy_iteration( alpha )
GreedyIterationCall ==
    /\ pc = "idle"
    /\ \E alpha \in Alphas, undefined \in UndefinedShift :
       \E r \in GreedyIterationRuns(graph, alpha, undefined) :
          /\ graph' = r.g
          /\ args' = [ op |-> "run_greedy_iteration", alpha |-> alpha,
                       visit_order |-> r.visit_order, queued |-> r.queued,
                       sought |-> r.sought,
                       inserted |-> r.inserted,
                       num_edges_added |-> r.num_edges_added ]
    /\ before' = graph
    /\ pc' = "returned"
    /\ UNCHANGED ret

InitIter ==
    /\ \E n \in 0..MaxIterN :
         \E labels \in [0..(n - 1) -> 0..(MaxIterLabels - 1)] :
            graph = [Graph(n, MaxIterLabels) EXCEPT !.vertex_labels_ = labels]
    /\ before = graph
    /\ pc = "idle"
    /\ args = [op |-> "none"]
    /\ ret = FALSE

NextIter == LabelledBuildEdge \/ GreedyIterationCall

SpecIter == InitIter /\ [][NextIter]_vars

(***************************************************************************)
(* C24.  In run_greedy_iteration, for each deficient vertex v the labels   *)
(* for which a mate is sought are exactly the labels whose bits are set in *)
(* v's deficiency mask, each tried once; an edge (v, u) is inserted only   *)
(* when u's label is one of those deficient labels of v.                   *)
(***************************************************************************)
\* the labels sought for the vertex at position p, in the order of the tries
LabelsSought(p) ==
    SelectSeq(args.sought, LAMBDA e : e[1] = p)

MatesSoughtForDeficientLabels ==
    (pc = "returned" /\ args.op = "run_greedy_iteration") =>
        /\ \A p \in 1..Len(args.visit_order) :
              /\ { e[2] : e \in { LabelsSought(p)[i] : i \in 1..Len(LabelsSought(p)) } }
                    = args.visit_order[p][2]
              /\ Len(LabelsSought(p)) = Cardinality(args.visit_order[p][2])
        /\ \A i \in 1..Len(args.inserted) :
              LET v == args.visit_order[args.inserted[i][1]]
                  u == args.visit_order[args.inserted[i][2]]
              IN graph.vertex_labels_[u[1]] \in v[2]

(***************************************************************************)
(* C25.  get_deficiencies(other, alpha) on equal-length distributions      *)
(* returns 0 iff the sum over all labels of |other.freq(i) - this.freq(i)| *)
(* is < alpha; otherwise it returns the bitmask whose bit i is set exactly *)
(* when other's relative frequency of label i strictly exceeds this        *)
(* distribution's.                                                         *)
(***************************************************************************)
\* the sum over all labels of the absolute differences
TotalDifference ==
    SumOfDifferences(args.b.frequencies_, args.a.frequencies_,
                     DOMAIN args.a.frequencies_)

\* the labels of which b has a higher relative frequency than a
DeficientLabels ==
    { i \in DOMAIN args.a.frequencies_ :
        FracGt(RelativeFrequency(args.b.frequencies_, i),
               RelativeFrequency(args.a.frequencies_, i)) }

\* as stated: 0 is returned in no other case than a sum below alpha
DeficienciesZeroIffBelowAlpha ==
    (pc = "returned" /\ args.op = "get_deficiencies") =>
        /\ args.result = {} <=> FracLt(TotalDifference, args.alpha)
        /\ ~FracLt(TotalDifference, args.alpha) => args.result = DeficientLabels

\* amended: 0 if the sum is below alpha, the bitmask otherwise; the bitmask
\* is itself 0 when no label has a higher relative frequency in b than in a
\* (the same relative frequencies, or b without any occurrence)
DeficienciesBelowAlphaOrBitmask ==
    (pc = "returned" /\ args.op = "get_deficiencies") =>
        IF FracLt(TotalDifference, args.alpha)
        THEN args.result = {}
        ELSE args.result = DeficientLabels

DeficienciesWitness ==
    /\ pc = "returned" /\ args.op = "get_deficiencies"
    /\ args.result = {0, 2}
    /\ FracEq(TotalDifference, args.alpha)
    /\ args.a.frequencies_ # args.b.frequencies_

(***************************************************************************)
(* hop_plot, thread by thread.  The team runs the two parallel regions of  *)
(* the code one step of one thread at a time.  visited and q are private   *)
(* to each thread, num_threads, hopplots and the graph are shared.  Every  *)
(* access of a thread to an object is recorded in args.accesses as         *)
(* << thread, object, index, kind >>.                                      *)
(***************************************************************************)
MaxRaceN == 3

\* a thread before the first parallel region
InitialThread ==
    [ pc |-> "start", i |-> -1, visited |-> {}, q |-> << >>, d |-> 0,
      pending |-> << >>, key |-> 0, delta |-> 0, reg |-> << >>,
      resume |-> "start" ]

Team == DOMAIN args.thread

Accessed(t, entries) ==
    args.accesses \cup { << t, e[1], e[2], e[3] >> : e \in entries }

\* hop_plot() is called: the master forks the team of the first region
HopPlotFork ==
    /\ pc = "idle"
    /\ graph.n_ <= MaxRaceN
    /\ \E team \in 1..MaxThreads, order \in IterationOrders :
       \E owner \in [ 0..(graph.n_ - 1) -> 0..(team - 1) ] :
          args' = [ op |-> "hop_plot", team |-> team, order |-> order,
                    owner |-> owner, num_threads |-> 0, hopplots |-> << >>,
                    thread |-> [ t \in 0..(team - 1) |-> InitialThread ],
                    accesses |-> {}, result |-> << >> ]
    /\ before' = graph
    /\ pc' = "first_region"
    /\ UNCHANGED << graph, ret >>

\* num_threads = omp_get_num_threads(), by thread t
StoreNumThreads(t) ==
    /\ pc = "first_region"
    /\ args.thread[t].pc = "start"
    /\ args' = [ args EXCEPT !.num_threads = args.team,
                             !.thread[t].pc = "joined",
                             !.accesses = Accessed(t, { << "num_threads", 0, "write" >> }) ]
    /\ UNCHANGED << graph, pc, before, ret >>

\* the first region has ended: hopplots( num_threads ), and the team of the
\* parallel loop is forked
ConstructHopplots ==
    /\ pc = "first_region"
    /\ \A t \in Team : args.thread[t].pc = "joined"
    /\ args' = [ args EXCEPT
                   !.hopplots = [ t \in 0..(args.num_threads - 1) |-> << >> ],
                   !.thread = [ t \in Team |-> [ @[t] EXCEPT !.pc = "next" ] ] ]
    /\ pc' = "parallel_for"
    /\ UNCHANGED << graph, before, ret >>

\* thread t begins its next iteration i: visited.clear(), visited.insert( i ),
\* the neighbours of i are pushed and marked
TakeIteration(t) ==
    /\ pc = "parallel_for"
    /\ args.thread[t].pc = "next"
    /\ LET th == args.thread[t]
           mine == { i \in 0..(graph.n_ - 1) : args.owner[i] = t /\ i > th.i }
       IN IF mine = {}
          THEN args' = [ args EXCEPT !.thread[t].pc = "done" ]
          ELSE LET i == CHOOSE x \in mine : \A y \in mine : x <= y
                   neighbours == Iterate(graph.adjacency_list_[i], args.order)
               IN args' = [ args EXCEPT
                     !.thread[t] =
                        [ th EXCEPT !.pc = "count", !.i = i,
                             !.visited = {i} \cup graph.adjacency_list_[i],
                             !.q = th.q \o [ j \in 1..Len(neighbours) |->
                                               << neighbours[j], 1 >> ],
                             !.key = 1,
                             !.delta = Cardinality(graph.adjacency_list_[i]),
                             !.resume = "pop" ],
                     !.accesses = Accessed(t, { << "visited", t, "write" >>,
                                                << "q", t, "write" >>,
                                                << "adjacency_list_", i, "read" >> }) ]
    /\ UNCHANGED << graph, pc, before, ret >>

\* my_hop_plot.count( key ), my_hop_plot being hopplots[ omp_get_thread_num() ]
CountEntry(t) ==
    /\ pc = "parallel_for"
    /\ args.thread[t].pc = "count"
    /\ LET th == args.thread[t]
           my_hop_plot == args.hopplots[t]
       IN args' = [ args EXCEPT
             !.thread[t].reg = IF th.key \in DOMAIN my_hop_plot
                               THEN << my_hop_plot[th.key] >> ELSE << >>,
             !.thread[t].pc = "store",
             !.accesses = Accessed(t, { << "hopplots", t, "read" >> }) ]
    /\ UNCHANGED << graph, pc, before, ret >>

\* my_hop_plot[ key ] = delta, or my_hop_plot.at( key ) += delta
StoreEntry(t) ==
    /\ pc = "parallel_for"
    /\ args.thread[t].pc = "store"
    /\ LET th == args.thread[t]
           my_hop_plot == args.hopplots[t]
       IN args' = [ args EXCEPT
             !.hopplots[t] =
                 IF th.reg = << >>
                 THEN [ k \in DOMAIN my_hop_plot \cup {th.key} |->
                          IF k = th.key THEN th.delta ELSE my_hop_plot[k] ]
                 ELSE [ my_hop_plot EXCEPT ![th.key] = th.reg[1] + th.delta ],
             !.thread[t].pc = th.resume,
             !.accesses = Accessed(t, { << "hopplots", t, "write" >> }) ]
    /\ UNCHANGED << graph, pc, before, ret >>

\* while( ! q.empty() ): the front is popped, or the iteration has ended
PopFront(t) ==
    /\ pc = "parallel_for"
    /\ args.thread[t].pc = "pop"
    /\ LET th == args.thread[t]
       IN IF th.q = << >>
          THEN args' = [ args EXCEPT
                  !.thread[t].pc = "next",
                  !.accesses = Accessed(t, { << "q", t, "read" >> }) ]
          ELSE args' = [ args EXCEPT
                  !.thread[t] =
                     [ th EXCEPT !.pc = "neighbours", !.q = Tail(th.q),
                          !.d = Head(th.q)[2],
                          !.pending = Iterate(graph.adjacency_list_[Head(th.q)[1]],
                                              args.order) ],
                  !.accesses = Accessed(t, { << "q", t, "write" >>,
                                             << "adjacency_list_", Head(th.q)[1], "read" >> }) ]
    /\ UNCHANGED << graph, pc, before, ret >>

\* one pass of for( auto const neighbour : adjacency_list_[ v ] )
VisitNeighbour(t) ==
    /\ pc = "parallel_for"
    /\ args.thread[t].pc = "neighbours"
    /\ LET th == args.thread[t]
       IN IF th.pending = << >>
          THEN args' = [ args EXCEPT !.thread[t].pc = "pop" ]
          ELSE LET neighbour == Head(th.pending)
               IN IF neighbour \notin th.visited
                  THEN args' = [ args EXCEPT
                          !.thread[t] =
                             [ th EXCEPT !.pc = "count",
                                  !.pending = Tail(th.pending),
                                  !.visited = th.visited \cup {neighbour},
                                  !.q = Append(th.q, << neighbour, th.d + 1 >>),
                                  !.key = th.d + 1, !.delta = 1,
                                  !.resume = "neighbours" ],
                          !.accesses = Accessed(t, { << "visited", t, "write" >>,
                                                     << "q", t, "write" >> }) ]
                  ELSE args' = [ args EXCEPT
                          !.thread[t].pending = Tail(th.pending),
                          !.accesses = Accessed(t, { << "visited", t, "read" >> }) ]
    /\ UNCHANGED << graph, pc, before, ret >>

\* the loop has ended: the master reduces the hop plots and returns
ReduceHopplots ==
    /\ pc = "parallel_for"
    /\ \A t \in Team : args.thread[t].pc = "done"
    /\ args' = [ args EXCEPT
                   !.result = ReduceFrom(args.hopplots, 1, args.hopplots[0]) ]
    /\ pc' = "returned"
    /\ UNCHANGED << graph, before, ret >>

ThreadStep(t) ==
    \/ StoreNumThreads(t)
    \/ TakeIteration(t)
    \/ CountEntry(t)
    \/ StoreEntry(t)
    \/ PopFront(t)
    \/ VisitNeighbour(t)

InitThreads ==
    /\ \E n \in 0..MaxRaceN : graph = UnlabelledGraph(n)
    /\ before = graph
    /\ pc = "idle"
    /\ args = [op |-> "none"]
    /\ ret = FALSE

NextThreads ==
    \/ BuildEdge
    \/ HopPlotFork
    \/ ConstructHopplots
    \/ ReduceHopplots
    \/ \E t \in 0..(MaxThreads - 1) : args.op = "hop_plot" /\ t \in Team /\ ThreadStep(t)

SpecThreads == InitThreads /\ [][NextThreads]_vars

(***************************************************************************)
(* C26.  hop_plot() is race-free and schedule-independent: for every       *)
(* assignment of source vertices to threads and every interleaving of      *)
(* their steps, each thread writes only its own partial table, visited set *)
(* and queue, no thread mutates the adjacency structure, and the merged    *)
(* histogram equals the one of a single-threaded run.                      *)
(***************************************************************************)
\* two threads access the same object and one of them writes it
Conflicting(a, b) ==
    /\ a[1] # b[1]
    /\ a[2] = b[2] /\ a[3] = b[3]
    /\ "write" \in { a[4], b[4] }

SingleThreaded(G, order) == hop_plot(G, 1, [ i \in 0..(G.n_ - 1) |-> 0 ], order)

\* the tables, visited sets and queues are written by their own thread
\* only, the adjacency structure by none, and the result is that of one thread
OwnObjectsOnly ==
    (args.op = "hop_plot" /\ pc # "idle") =>
        /\ \A a \in args.accesses :
              /\ a[2] \in { "hopplots", "visited", "q" } => a[3] = a[1]
              /\ a[2] = "adjacency_list_" => a[4] = "read"
        /\ graph = before
        /\ pc = "returned" => args.result = SingleThreaded(graph, args.order)

HopPlotRaceFree ==
    /\ OwnObjectsOnly
    /\ (args.op = "hop_plot" /\ pc # "idle") =>
          \A a \in args.accesses, b \in args.accesses : ~Conflicting(a, b)

(***************************************************************************)
(* C28.  For every graph with n >= 2k and k >= 1, during hide_waldo(k),    *)
(* with either template argument, every add_edge call of the cyclic        *)
(* augmentation inserts its edge (no original vertex is connected twice to *)
(* the same new vertex), so afterwards each original vertex's degree is    *)
(* its value in the anonymised degree sequence and the degrees of the      *)
(* original n vertices alone form a k-anonymous multiset.                  *)
(***************************************************************************)
Degree(G, v) == Cardinality(G.adjacency_list_[v])

OriginalsReachAnonymisedDegrees ==
    (pc = "returned" /\ args.op = "hide_waldo" /\ before.n_ >= 2 * args.k) =>
        /\ args.all_added
        /\ \A p \in 0..(before.n_ - 1) :
              Degree(graph, second(retrieve_degree_sequence(before)[p]))
                 = first(args.anon_degrees[p])
        /\ \A u \in 0..(before.n_ - 1) :
              Cardinality({ v \in 0..(before.n_ - 1) :
                              Degree(graph, v) = Degree(graph, u) }) >= args.k

OriginalsReachAnonymisedDegreesWitness ==
    /\ pc = "returned" /\ args.op = "hide_waldo"
    /\ before.n_ >= 2 * args.k
    /\ args.all_added
    /\ \E v \in 0..(before.n_ - 1) : Degree(graph, v) >= Degree(before, v) + 2
    /\ \E v \in 0..(before.n_ - 1) : Degree(graph, v) = Degree(before, v) + 1

(***************************************************************************)
(* C29.  hide_waldo produces a super-graph of its input: no vertex or edge *)
(* of the original graph is removed and no edge is added between two       *)
(* original vertices, so the subgraph induced on the original vertex ids   *)
(* [0, n_before) is exactly the input graph; every added edge has at least *)
(* one endpoint among the new vertices.                                    *)
(***************************************************************************)
EdgesOf(G) ==
    { e \in (0..(G.n_ - 1)) \X (0..(G.n_ - 1)) : e[2] \in G.adjacency_list_[e[1]] }

HideWaldoYieldsSuperGraph ==
    (pc = "returned" /\ args.op = "hide_waldo") =>
        /\ graph.n_ >= before.n_
        /\ EdgesOf(before) \subseteq EdgesOf(graph)
        /\ \A u \in 0..(before.n_ - 1) :
              graph.adjacency_list_[u] \cap (0..(before.n_ - 1))
                 = before.adjacency_list_[u]
        /\ \A e \in EdgesOf(graph) \ EdgesOf(before) :
              e[1] >= before.n_ \/ e[2] >= before.n_

\* edges were added from original to new vertices and among the new ones
HideWaldoYieldsSuperGraphWitness ==
    /\ pc = "returned" /\ args.op = "hide_waldo"
    /\ before.m_ > 0
    /\ \E e \in EdgesOf(graph) : e[1] < before.n_ /\ e[2] >= before.n_
    /\ \E e \in EdgesOf(graph) : e[1] >= before.n_ /\ e[2] >= before.n_

(***************************************************************************)
(* C30.  In run_greedy_iteration, every vertex whose neighbourhood-to-     *)
(* global distance (as is_alpha_proximal measures it, over the labels      *)
(* 0..l-2) exceeds alpha receives a nonzero deficiency bitmask and is      *)
(* placed in the processing queue; equivalently, any vertex left out of    *)
(* the queue already has distance <= alpha.                                *)
(***************************************************************************)
\* run_greedy_iteration on the graphs of up to MaxQueueN vertices
MaxQueueN == 3

InitQueue ==
    /\ \E n \in 0..MaxQueueN :
         \E labels \in [0..(n - 1) -> 0..(MaxIterLabels - 1)] :
            graph = [Graph(n, MaxIterLabels) EXCEPT !.vertex_labels_ = labels]
    /\ before = graph
    /\ pc = "idle"
    /\ args = [op |-> "none"]
    /\ ret = FALSE

SpecQueue == InitQueue /\ [][NextIter]_vars

\* the distance is_alpha_proximal computes for vertex v
NeighbourhoodDistance(G, v) ==
    distance(get_global_ld(G), get_neighbourhood_ld(G, v))

\* the vertices pushed on visit_order, each with a bitmask that is not 0
Queued == { args.queued[j][1] :
              j \in { x \in DOMAIN args.queued : args.queued[x][2] # {} } }

DistantVerticesAreQueued ==
    (pc = "returned" /\ args.op = "run_greedy_iteration") =>
        /\ \A v \in 0..(before.n_ - 1) :
              FracGt(NeighbourhoodDistance(before, v), args.alpha) => v \in Queued
        /\ { args.visit_order[j][1] : j \in DOMAIN args.visit_order } = Queued

DistantVerticesAreQueuedWitness ==
    /\ pc = "returned" /\ args.op = "run_greedy_iteration"
    /\ \E v \in Queued : FracGt(NeighbourhoodDistance(before, v), args.alpha)
    /\ \E v \in (0..(before.n_ - 1)) \ Queued :
          FracGt(NeighbourhoodDistance(before, v), Zero)
    /\ FracGt(args.alpha, Zero)

====
